---- MODULE Spec2Model ----
(***************************************************************************)
(* Candidate-matching batch pipeline of A2Cby/recruiting.                  *)
(*                                                                         *)
(* The state machines modelled, each with its own specification:           *)
(*   - SpecMonitor: the monitor task monitor_and_process_batch_job         *)
(*     (core/openai_service.py), polling one remote batch job;             *)
(*   - SpecMonitorFair: the same under fair scheduling of the task;        *)
(*   - SpecApi: the HTTP endpoints of api/v1/endpoints/matching.py         *)
(*     together with the stages they call;                                 *)
(*   - SpecBuild: prepare_openai_batch_input on a candidate list;          *)
(*   - SpecReconcile: process_openai_results on a result text and          *)
(*     save_results_to_file on a list of scores;                           *)
(*   - SpecStages: create_and_upload_batch_file, create_batch_job and     *)
(*     fetch_candidates_from_db called on their own, next to a submission  *)
(*     request;                                                            *)
(*   - SpecExtract: extract_keywords_from_vacancy on what the model        *)
(*     answers;                                                            *)
(*   - SpecPolicy: process_openai_results under the settings loaded from   *)
(*     the environment file;                                               *)
(*   - SpecTwoRuns: two matching runs writing their payload and result     *)
(*     files in the same process;                                          *)
(*   - SpecTrigger: repeated runs of trigger_recruiting_ai.py.             *)
(***************************************************************************)
EXTENDS Integers, Sequences, FiniteSets, TLC

VARIABLES
    \* ---- remote batch-inference service (environment) ----
    remote,          \* the remote batch job: [status, output_file_id]
    \* ---- monitor_and_process_batch_job ----
    mpc,             \* position of the monitor coroutine
    batch_job,       \* what the last client.batches.retrieve returned/raised
    wait,            \* argument of the pending asyncio.sleep
    elapsed,         \* seconds slept since start_time
    retrievals,      \* number of client.batches.retrieve calls
    sleeps,          \* number of completed asyncio.sleep calls
    downloads,       \* number of client.files.content calls
    download_result, \* "none" | "ok" | "raised" | "processing_raised"
    reconciliations, \* number of process_openai_results calls
    failure_reports, \* number of terminal-failure log records
    artifacts,       \* number of result files written
    logins,          \* number of partner-API login calls
    forwards,        \* number of partner-API bulk-create calls
    suspensions,     \* number of sleeps that yielded to the event loop
    \* ---- HTTP endpoints ----
    client,          \* openai_service.client is not None
    sync_client,     \* openai_service.sync_client is not None
    env,             \* behaviour of the collaborators during the request
    endpoint,        \* which entry point was called ("none": none yet)
    resp,            \* the HTTP response of the last request
    calls,           \* collaborator calls made by the last request, in order
    raised,          \* what the try body of the last request raised
    extract_ret,     \* what extract_keywords_from_vacancy returned
    background_tasks, \* monitor tasks scheduled by the submission endpoint
    \* ---- stage functions called on their own ----
    candidates,      \* the candidate list passed to the builder/reconciler
    batch_input,     \* what prepare_openai_batch_input returned
    batch_input_again, \* what a second, identical call returned
    results_content, \* the lines of the downloaded result file
    recon,           \* outcome of process_openai_results / save_results_to_file
    upc,             \* position inside create_and_upload_batch_file
    attempt,         \* the loop variable of the upload loop
    transmissions,   \* number of client.files.create calls
    temp_file,       \* the temporary batch input file exists on disk
    stage_ret,       \* what the upload / job creation returned ("" for None)
    creations,       \* number of client.batches.create calls
    remote_files,    \* ids of the files the remote service has stored
    \* ---- the host: environment file, clock, directories, vacancy table ----
    dotenv,          \* key/value pairs of the .env file read at import
    now,             \* datetime.now() in whole seconds
    files,           \* working directory: timestamp |-> run whose payload
                     \* batch_input_<timestamp>.jsonl holds (0: no file)
    output_files,    \* output directory: timestamp |-> run whose result
                     \* candidate_scores_<timestamp>.json holds (0: no file)
    run,             \* the matching runs in flight
    vacancies_vec,   \* table vacancies_vec: id |-> need_to_be_processed
    accepted,        \* id |-> number of 202 answers for that vacancy
    script_runs      \* completed runs of trigger_recruiting_ai.py

monitorVars == <<remote, mpc, batch_job, wait, elapsed, retrievals, sleeps,
                 downloads, download_result, reconciliations,
                 failure_reports, artifacts, logins, forwards, suspensions>>

apiVars == <<client, sync_client, env, endpoint, resp, calls, raised,
             extract_ret, background_tasks>>

stageVars == <<candidates, batch_input, batch_input_again, results_content,
               recon, upc, attempt, transmissions, temp_file, stage_ret,
               creations, remote_files>>

hostVars == <<dotenv, now, files, output_files, run, vacancies_vec, accepted,
              script_runs>>

vars == <<remote, mpc, batch_job, wait, elapsed, retrievals, sleeps,
          downloads, download_result, reconciliations, failure_reports,
          artifacts, logins, forwards, suspensions,
          client, sync_client, env, endpoint, resp, calls, raised,
          extract_ret, background_tasks,
          candidates, batch_input, batch_input_again, results_content,
          recon, upc, attempt, transmissions, temp_file, stage_ret,
          creations, remote_files,
          dotenv, now, files, output_files, run, vacancies_vec, accepted,
          script_runs>>

(***************************************************************************)
(* Bounds                                                                  *)
(***************************************************************************)
\* status retrievals one monitor task may make in a checked run
MaxPolls == 4
\* evaluations a downloaded result file may yield
MaxScores == 2

(***************************************************************************)
(* The remote batch job                                                    *)
(***************************************************************************)
NonTerminalStatuses == {"validating", "in_progress", "finalizing"}

FailedStatuses == {"failed", "cancelled", "expired"}

TerminalStatuses == {"completed"} \cup FailedStatuses

RemoteStatuses == NonTerminalStatuses \cup TerminalStatuses

\* The remote service moves a job forward; a terminal job never changes.
RemoteAdvance ==
    /\ remote.status \in NonTerminalStatuses
    /\ \E s \in RemoteStatuses \ {"validating"}, out \in BOOLEAN :
          /\ s # remote.status
          /\ remote.status = "finalizing" => s \in TerminalStatuses
          /\ remote' = [status |-> s, output_file_id |-> out]
    /\ UNCHANGED <<mpc, batch_job, wait, elapsed, retrievals, sleeps,
                   downloads, download_result, reconciliations,
                   failure_reports, artifacts, logins, forwards>>
    /\ UNCHANGED suspensions
    /\ UNCHANGED apiVars
    /\ UNCHANGED hostVars
    /\ UNCHANGED stageVars

(***************************************************************************)
(* monitor_and_process_batch_job                                           *)
(***************************************************************************)
timeout_seconds == 300

RateLimitWait == 60

APIErrorWait == 60

UnexpectedErrorWait == 120

RetrieveErrors == {"RateLimitError", "APIError", "Exception"}

NoJob == [kind |-> "none", status |-> "none", output_file_id |-> FALSE]

\* `while True`: the loop condition, given the seconds elapsed so far.
LoopGuard_Deadline(secs) == secs < timeout_seconds

LoopGuard(secs) == TRUE

\* Where the coroutine goes after a retrieval returned status s; out is
\* the truth value of batch_job.output_file_id.
AfterStatus_FailedDownloads(s, out) ==
    IF s \in {"completed"} \cup FailedStatuses
    THEN (IF out THEN "download" ELSE "done")
    ELSE "sleep"

AfterStatus_ExpiredPolls(s, out) ==
    IF s = "completed" THEN (IF out THEN "download" ELSE "done")
    ELSE IF s \in {"failed", "cancelled"} THEN "done"
    ELSE "sleep"

AfterStatus_DownloadsAnyway(s, out) ==
    IF s = "completed" THEN "download"
    ELSE IF s \in {"failed", "cancelled", "expired"} THEN "done"
    ELSE "sleep"

AfterStatus_CancelledPolls(s, out) ==
    IF s = "completed" THEN (IF out THEN "download" ELSE "done")
    ELSE IF s \in {"failed", "expired"} THEN "done"
    ELSE "sleep"

AfterStatus(s, out) ==
    IF s = "completed" THEN (IF out THEN "download" ELSE "done")
    ELSE IF s \in {"failed", "cancelled", "expired"} THEN "done"
    ELSE "sleep"

\* Whether the terminal failure of the job is logged as an error.
ReportsFailure(s) == s \in {"failed", "cancelled", "expired"}

\* Where the coroutine goes after the download/processing block.
AfterDownload_NoBreak == "sleep"

AfterDownload == "done"

\* The except clauses of the loop: the wait applied per error class.
ErrorWait(e) ==
    IF e = "RateLimitError" THEN RateLimitWait
    ELSE IF e = "APIError" THEN APIErrorWait
    ELSE UnexpectedErrorWait

\* send_candidates_to_api: the login call is made outside the try block, the
\* bulk-create call inside it.  login/bulk are the outcomes of the two
\* requests.  Result: calls made and whether an exception escapes.
send_candidates_to_api(login, bulk) ==
    IF login = "raise"
    THEN [logins |-> 1, forwards |-> 0, raises |-> TRUE]
    ELSE [logins |-> 1, forwards |-> 1, raises |-> FALSE]

\* save_results_to_file for n scores: write is the outcome of writing the
\* JSON file.  A requests exception escaping send_candidates_to_api is an
\* IOError and is caught by the same except clause as a failed write.
save_results_to_file(n, write, login, bulk) ==
    IF n = 0
    THEN [artifacts |-> 0, logins |-> 0, forwards |-> 0, path |-> FALSE]
    ELSE IF write = "ioerror"
    THEN [artifacts |-> 0, logins |-> 0, forwards |-> 0, path |-> FALSE]
    ELSE LET sent == send_candidates_to_api(login, bulk)
         IN [artifacts |-> 1, logins |-> sent.logins,
             forwards |-> sent.forwards, path |-> ~sent.raises]

\* process_openai_results: n is the number of evaluations parsed from the
\* result text; proc = "error" is an exception caught by the outer except
\* clause (the function returns before saving).
process_openai_results(n, proc, write, login, bulk) ==
    IF proc = "error" \/ n = 0
    THEN [artifacts |-> 0, logins |-> 0, forwards |-> 0, path |-> FALSE]
    ELSE save_results_to_file(n, write, login, bulk)

\* An exception that leaves process_openai_results: the save step is called
\* after the try block and formats the entries (int(vacancy_id)) before
\* its own try block, so nothing is written or sent.
process_openai_results_raises(n, proc) == proc = "raise" /\ n > 0

\* except Exception as download_err: the error of the download or of the
\* reconciliation is logged and the statement after the block is reached.
DownloadExcept_Propagates == "propagates"

DownloadExcept == "caught"

\* Where the coroutine goes after the inner except clause.
AfterDownloadError ==
    IF DownloadExcept = "caught" THEN AfterDownload ELSE "sleep"

\* A retrieval returns the job's current status.
MonitorRetrieveStatus ==
    /\ mpc = "retrieve"
    /\ client
    /\ retrievals < MaxPolls
    /\ retrievals' = retrievals + 1
    /\ batch_job' = [kind |-> "status", status |-> remote.status,
                     output_file_id |-> remote.output_file_id]
    /\ mpc' = AfterStatus(remote.status, remote.output_file_id)
    /\ wait' = IF mpc' = "sleep" THEN timeout_seconds ELSE 0
    /\ failure_reports' = IF /\ remote.status # "completed"
                             /\ ReportsFailure(remote.status)
                          THEN failure_reports + 1 ELSE failure_reports
    /\ UNCHANGED <<remote, elapsed, sleeps, downloads, download_result,
                   reconciliations, artifacts, logins, forwards>>
    /\ UNCHANGED suspensions
    /\ UNCHANGED apiVars
    /\ UNCHANGED hostVars
    /\ UNCHANGED stageVars

\* A retrieval raises (without a client: an attribute error on None); the
\* matching except clause picks the wait.
MonitorRetrieveError ==
    /\ mpc = "retrieve"
    /\ retrievals < MaxPolls
    /\ \E e \in (IF client THEN RetrieveErrors ELSE {"Exception"}) :
          /\ batch_job' = [kind |-> e, status |-> "none",
                           output_file_id |-> FALSE]
          /\ wait' = ErrorWait(e)
    /\ retrievals' = retrievals + 1
    /\ mpc' = "sleep"
    /\ UNCHANGED <<remote, elapsed, sleeps, downloads, download_result,
                   reconciliations, failure_reports, artifacts, logins,
                   forwards>>
    /\ UNCHANGED suspensions
    /\ UNCHANGED apiVars
    /\ UNCHANGED hostVars
    /\ UNCHANGED stageVars

\* client.files.content raises: logged by the inner except clause.
MonitorDownloadFails ==
    /\ mpc = "download"
    /\ downloads' = downloads + 1
    /\ download_result' = "raised"
    /\ mpc' = AfterDownloadError
    /\ wait' = IF mpc' = "sleep" THEN UnexpectedErrorWait ELSE 0
    /\ UNCHANGED <<remote, batch_job, elapsed, retrievals, sleeps,
                   reconciliations, failure_reports, artifacts, logins,
                   forwards>>
    /\ UNCHANGED suspensions
    /\ UNCHANGED apiVars
    /\ UNCHANGED hostVars
    /\ UNCHANGED stageVars

\* client.files.content returns: the text goes to process_openai_results.
MonitorDownloadAndProcess ==
    /\ mpc = "download"
    /\ downloads' = downloads + 1
    /\ reconciliations' = reconciliations + 1
    /\ \E n \in 0..MaxScores, proc \in {"ok", "error", "raise"},
          write \in {"ok", "ioerror"}, login \in {"ok", "raise"},
          bulk \in {"ok", "fail"} :
          IF process_openai_results_raises(n, proc)
          THEN /\ download_result' = "processing_raised"
               /\ mpc' = AfterDownloadError
               /\ wait' = IF mpc' = "sleep" THEN UnexpectedErrorWait ELSE 0
               /\ UNCHANGED <<artifacts, logins, forwards>>
          ELSE LET r == process_openai_results(n, proc, write, login, bulk)
               IN /\ download_result' = "ok"
                  /\ artifacts' = artifacts + r.artifacts
                  /\ logins' = logins + r.logins
                  /\ forwards' = forwards + r.forwards
                  /\ mpc' = AfterDownload
                  /\ wait' = IF mpc' = "sleep" THEN timeout_seconds ELSE 0
    /\ UNCHANGED <<remote, batch_job, elapsed, retrievals, sleeps,
                   failure_reports>>
    /\ UNCHANGED suspensions
    /\ UNCHANGED apiVars
    /\ UNCHANGED hostVars
    /\ UNCHANGED stageVars

\* The sleep call made on each path of the loop: after a status that is
\* not terminal ("status") and in the three except clauses.
\* (the _BlockingOnError variant calls time.sleep after an unexpected error)
SleepCall_BlockingOnError(kind) ==
    IF kind = "Exception" THEN "time.sleep" ELSE "asyncio.sleep"

SleepCall(kind) == "asyncio.sleep"

\* The sleep returns and the loop condition is evaluated again.
MonitorWake ==
    /\ mpc = "sleep"
    /\ sleeps' = sleeps + 1
    /\ suspensions' = IF SleepCall(batch_job.kind) = "asyncio.sleep"
                      THEN suspensions + 1 ELSE suspensions
    /\ elapsed' = elapsed + wait
    /\ mpc' = IF LoopGuard(elapsed') THEN "retrieve" ELSE "done"
    /\ wait' = 0
    /\ UNCHANGED <<remote, batch_job, retrievals, downloads,
                   download_result, reconciliations, failure_reports,
                   artifacts, logins, forwards>>
    /\ UNCHANGED apiVars
    /\ UNCHANGED hostVars
    /\ UNCHANGED stageVars

(***************************************************************************)
(* Python values, exceptions and HTTP responses                            *)
(***************************************************************************)
\* A list and a str are different types; text is the str's content, items
\* the list's elements.
PyList(items) == [type |-> "list", items |-> items, text |-> ""]

PyStr(text) == [type |-> "str", items |-> <<>>, text |-> text]

\* An exception: its class, status_code/detail when it is an HTTPException,
\* and str(exception) as the sequence of the pieces of the message.
NoExc == [cls |-> "none", status_code |-> 0, detail |-> <<>>, msg |-> <<>>]

HTTPException(code, detail) ==
    [cls |-> "HTTPException", status_code |-> code, detail |-> detail,
     msg |-> <<>>]

PyError(cls, msg) ==
    [cls |-> cls, status_code |-> 0, detail |-> <<>>, msg |-> msg]

NoBody == [batch_id |-> "", status |-> ""]

\* schemas.batch.BatchJobStatus, the response model of both endpoints.
BatchJobStatus(batch_id, status) == [batch_id |-> batch_id, status |-> status]

NoResp == [code |-> 0, detail |-> <<>>, body |-> NoBody]

HttpError(he) == [code |-> he.status_code, detail |-> he.detail, body |-> NoBody]

\* An f-string is kept as the sequence of its pieces: text contains part
\* when the pieces of part occur in it consecutively.
Contains(text, part) ==
    \E i \in 0..(Len(text) - Len(part)) :
        SubSeq(text, i + 1, i + Len(part)) = part

(***************************************************************************)
(* Collaborator behaviour during one request                               *)
(***************************************************************************)
MaxCandidates == 2

UploadAttempts == 10

KeywordLists == {<<>>, <<"python">>, <<"python", "sql">>}

LocationLists == {<<>>, <<"FRANCE">>, <<"FRANCE", "GERMANY">>}

ErrorMessages == {"boom", "connection reset"}

RetrieveOutcomes ==
    RemoteStatuses \cup {"NotFoundError", "RateLimitError", "APIError",
                         "Exception"}

BatchIds == {"batch_a", "batch_b"}

EnvFields(llm, kws, locs, ingest, db, rows, upf, create, retr, msg, bid) ==
    [llm |-> llm, llm_keywords |-> kws, llm_locations |-> locs,
     ingest |-> ingest, db |-> db, db_rows |-> rows,
     upload_failures |-> upf, create |-> create, retrieve |-> retr,
     msg |-> msg, batch_id |-> bid]

NoEnv == EnvFields("error", <<>>, <<>>, "ok", "rows", 0, 0, "ok",
                   "validating", "boom", "batch_a")

\* What the collaborators would answer to a submission request.
SubmitEnv ==
    {EnvFields("error", <<>>, <<>>, ingest, db[1], db[2], upf, create,
               retr, "boom", "batch_a") :
        ingest \in {"ok", "raise"},
        db \in {<<"unavailable", 0>>, <<"error", 0>>}
               \cup {<<"rows", n>> : n \in 0..MaxCandidates},
        upf \in {0, 1, UploadAttempts},
        create \in {"ok", "raise"},
        retr \in {"in_progress", "completed", "Exception"}}
    \cup
    {EnvFields("ok", kws, locs, ingest, db[1], db[2], upf, create,
               retr, "boom", "batch_a") :
        kws \in KeywordLists, locs \in LocationLists,
        ingest \in {"ok", "raise"},
        db \in {<<"unavailable", 0>>, <<"error", 0>>}
               \cup {<<"rows", n>> : n \in 0..MaxCandidates},
        upf \in {0, 1, UploadAttempts},
        create \in {"ok", "raise"},
        retr \in {"in_progress", "completed", "Exception"}}

\* What the remote service would answer to a status request.
StatusEnv ==
    {EnvFields("error", <<>>, <<>>, "ok", "rows", 0, 0, "ok", retr, msg,
               bid) :
        retr \in RetrieveOutcomes, msg \in ErrorMessages, bid \in BatchIds}

(***************************************************************************)
(* extract_keywords_from_vacancy                                           *)
(***************************************************************************)
Country ==
    {
     "CYPRUS", "FRANCE", "BELGIUM", "SPAIN", "ENGLAND", "GERMANY", "ITALY",
     "UNITED_STATES", "CANADA", "AUSTRALIA", "INDIA", "CHINA", "JAPAN",
     "BRAZIL", "POLAND", "NETHERLANDS", "UKRAINE", "SWITZERLAND", "SWEDEN",
     "ALBANIA", "RUSSIA", "UNITED_ARAB_EMIRATES", "ANDORRA", "AUSTRIA",
     "BELARUS", "BULGARIA", "CROATIA", "CZECH_REPUBLIC", "DENMARK",
     "ESTONIA", "FINLAND", "GEORGIA", "GREECE", "HUNGARY", "TURKEY",
     "ROMANIA", "PORTUGAL", "NORWAY", "MOLDOVA", "LITHUANIA", "LUXEMBOURG",
     "SERBIA", "SLOVAKIA", "BOSNIA_AND_HERZEGOVINA", "LATVIA",
     "LIECHTENSTEIN", "ISRAEL", "KAZAKHSTAN", "AZERBAIJAN", "UZBEKISTAN",
     "TAJIKISTAN"
    }

country_code_map ==
    "FRANCE" :> "105015875" @@
    "BELGIUM" :> "100565514" @@
    "SPAIN" :> "105646813" @@
    "ENGLAND" :> "102299470" @@
    "GERMANY" :> "101282230" @@
    "ITALY" :> "103350119" @@
    "UNITED STATES" :> "103644278" @@
    "CANADA" :> "101174742" @@
    "AUSTRALIA" :> "101452733" @@
    "INDIA" :> "102713980" @@
    "CHINA" :> "102890883" @@
    "JAPAN" :> "101355337" @@
    "BRAZIL" :> "106057199" @@
    "POLAND" :> "105072130" @@
    "NETHERLANDS" :> "102890719" @@
    "UKRAINE" :> "102264497" @@
    "SWITZERLAND" :> "106693272" @@
    "SWEDEN" :> "105117694" @@
    "ALBANIA" :> "102845717" @@
    "RUSSIA" :> "101728296" @@
    "UNITED ARAB EMIRATES" :> "104305776" @@
    "ANDORRA" :> "106296266" @@
    "AUSTRIA" :> "103883259" @@
    "BELARUS" :> "101705918" @@
    "BULGARIA" :> "105333783" @@
    "CROATIA" :> "104688944" @@
    "CZECH REPUBLIC" :> "104508036" @@
    "DENMARK" :> "104514075" @@
    "ESTONIA" :> "102974008" @@
    "FINLAND" :> "100456013" @@
    "GEORGIA" :> "106315325" @@
    "GREECE" :> "104677530" @@
    "HUNGARY" :> "100288700" @@
    "TURKEY" :> "106732692" @@
    "ROMANIA" :> "106670623" @@
    "PORTUGAL" :> "100364837" @@
    "NORWAY" :> "103819153" @@
    "MOLDOVA" :> "106178099" @@
    "LITHUANIA" :> "101464403" @@
    "LUXEMBOURG" :> "104042105" @@
    "SERBIA" :> "101855366" @@
    "SLOVAKIA" :> "103119917" @@
    "BOSNIA AND HERZEGOVINA" :> "102869081" @@
    "LATVIA" :> "104341318" @@
    "LIECHTENSTEIN" :> "100878084" @@
    "ISRAEL" :> "101620260" @@
    "KAZAKHSTAN" :> "106049128" @@
    "AZERBAIJAN" :> "103226548" @@
    "UZBEKISTAN" :> "107734735" @@
    "TAJIKISTAN" :> "105925962"

\* A member of the Country enumeration (a plain Enum, not a str).
CountryMember(name) == [type |-> "Country", name |-> name]

\* dict.get: a key matches only an equal key of the same type.
country_code_map_get(key, default) ==
    IF key.type = "str" /\ key.name \in DOMAIN country_code_map
    THEN country_code_map[key.name]
    ELSE default

\* str(list) with the quotes and brackets replaced away.
RECURSIVE JoinComma(_)
JoinComma(items) ==
    IF items = <<>> THEN ""
    ELSE IF Len(items) = 1 THEN items[1]
    ELSE items[1] \o ", " \o JoinComma(Tail(items))

\* The value returned when the try block raises.
ExtractFailure == <<PyList(<<>>), PyList(<<"">>)>>

\* The returned tuple; e.llm says whether the completion call raises.
extract_keywords_from_vacancy(e) ==
    IF ~sync_client \/ e.llm = "error"
    THEN ExtractFailure
    ELSE LET keywords == e.llm_keywords
             locations == [i \in 1..Len(e.llm_locations) |->
                              CountryMember(e.llm_locations[i])]
             codes == [i \in 1..Len(locations) |->
                          country_code_map_get(locations[i], "")]
         IN <<PyList(keywords), PyStr(JoinComma(codes))>>

(***************************************************************************)
(* Stages called by the submission endpoint                                *)
(***************************************************************************)
\* Fields of schemas.request.VacancyMatchRequest.
RequestFields == {"vacancy_text"}

\* Parameter names of the two candidate sources.
fetch_candidates_from_linkedin_params == {"vacancy_id", "keywords", "location"}

fetch_candidates_from_db_params == {"keywords", "location"}

\* Outcome of a stage: the exception it raises (NoExc: none) and its value.
Raise(exc) == [exc |-> exc, value |-> <<>>]

Return(value) == [exc |-> NoExc, value |-> value]

\* str(ValueError) of a tuple unpacking of got values into expected names.
UnpackMessage(expected, got) ==
    IF got < expected
    THEN <<"not enough values to unpack (expected ", ToString(expected),
           ", got ", ToString(got), ")">>
    ELSE <<"too many values to unpack (expected ", ToString(expected), ")">>

\* fetch_candidates_from_db called with the keyword arguments kwargs.
\* get_db_connection returns None when the connection fails, and the
\* caller unpacks its result into two names.
fetch_candidates_from_db(kwargs, e) ==
    IF ~(kwargs \subseteq fetch_candidates_from_db_params)
    THEN Raise(PyError("TypeError", <<"unexpected keyword argument">>))
    ELSE IF e.db = "unavailable"
    THEN Raise(PyError("TypeError",
                       <<"cannot unpack non-iterable NoneType object">>))
    ELSE IF e.db = "error"
    THEN Raise(HTTPException(500,
                   <<"Error fetching candidates from database.">>))
    ELSE Return([i \in 1..e.db_rows |-> i])

\* create_and_upload_batch_file: the id of the uploaded file, "" for None.
create_and_upload_batch_file(e) ==
    IF ~client THEN ""
    ELSE IF e.upload_failures < UploadAttempts THEN "file_1"
    ELSE ""

\* create_batch_job: the id of the created job, "" for None.
\* (the _Optimistic variant returns the expected id although the call
\* raised)
create_batch_job_Optimistic(e) ==
    IF ~client THEN ""
    ELSE e.batch_id

create_batch_job(e) ==
    IF ~client THEN ""
    ELSE IF e.create = "raise" THEN ""
    ELSE e.batch_id

\* get_batch_status: returns the job or re-raises what the retrieval raised.
get_batch_status(e) ==
    IF ~client
    THEN Raise(PyError("NotFoundError", <<"OpenAI client not available">>))
    ELSE IF e.retrieve \in RemoteStatuses
    THEN Return([id |-> e.batch_id, status |-> e.retrieve])
    ELSE Raise(PyError(e.retrieve, <<e.msg>>))

(***************************************************************************)
(* match_candidates_batch_endpoint                                         *)
(***************************************************************************)
\* Outcome of the try body: exception or response body, the collaborator
\* calls made and the background tasks added.
BodyResult(exc, body, called, tasks) ==
    [exc |-> exc, body |-> body, calls |-> called, tasks |-> tasks]

AttributeError == PyError("AttributeError",
                          <<"object has no attribute 'vacancy_id'">>)

\* 7. Return initial status.
ReturnStage(e, called, tasks, batch_job_id) ==
    LET st == get_batch_status(e)
        initial_status == IF st.exc = NoExc THEN st.value.status
                          ELSE "pending"
    IN BodyResult(NoExc, BatchJobStatus(batch_job_id, initial_status),
                  Append(called, "get_status"), tasks)

\* 6. Add the background task.
ScheduleStage(e, called, batch_job_id) ==
    IF "vacancy_id" \notin RequestFields
    THEN BodyResult(AttributeError, NoBody, called, <<>>)
    ELSE ReturnStage(e, called,
                     <<[task |-> "monitor_and_process_batch_job",
                        batch_id |-> batch_job_id]>>,
                     batch_job_id)

\* 5. Create the batch job.
CreateStage(e, called) ==
    IF "vacancy_id" \notin RequestFields
    THEN BodyResult(AttributeError, NoBody, called, <<>>)
    ELSE LET batch_job_id == create_batch_job(e)
         IN IF batch_job_id = ""
            THEN BodyResult(HTTPException(500,
                                <<"Failed to create OpenAI batch job.">>),
                            NoBody, Append(called, "create_job"), <<>>)
            ELSE ScheduleStage(e, Append(called, "create_job"),
                               batch_job_id)

\* 3./4. Prepare the batch input and upload it.
UploadStage(e, called) ==
    LET input_file_id == create_and_upload_batch_file(e)
    IN IF input_file_id = ""
       THEN BodyResult(HTTPException(500,
                  <<"Failed to upload batch input file to OpenAI.">>),
                  NoBody, Append(called, "upload"), <<>>)
       ELSE CreateStage(e, Append(called, "upload"))

\* 3. Fetch candidates from the database.
FetchStage(e, called) ==
    LET fetched == fetch_candidates_from_db({"keywords", "locations"}, e)
        queried == \/ fetched.exc = NoExc
                   \/ fetched.exc.cls = "HTTPException"
        called2 == IF queried THEN Append(called, "db_query") ELSE called
    IN IF fetched.exc # NoExc
       THEN BodyResult(fetched.exc, NoBody, called2, <<>>)
       ELSE IF Len(fetched.value) = 0
       THEN BodyResult(HTTPException(404,
                  <<"No candidates found matching the specified criteria.">>),
                  NoBody, called2, <<>>)
       ELSE UploadStage(e, called2)

\* Ingestion, inside its own try/except: whatever it raises is logged.
IngestStage(e, called) ==
    LET invoked == /\ "vacancy_id" \in RequestFields
                   /\ {"keywords", "location", "russian_speaking"}
                         \subseteq fetch_candidates_from_linkedin_params
    IN FetchStage(e, IF invoked THEN Append(called, "ingest") ELSE called)

\* Number of names the result of the extraction is unpacked into.
UnpackTargets == 3

\* 1. Extract keywords and unpack the returned tuple.
TryBody(e) ==
    LET ret == extract_keywords_from_vacancy(e)
        called == <<"extract">>
    IN IF Len(ret) # UnpackTargets
       THEN BodyResult(PyError("ValueError",
                               UnpackMessage(UnpackTargets, Len(ret))),
                       NoBody, called, <<>>)
       ELSE IngestStage(e, called)

\* except HTTPException: raise he / except Exception: raise 500.
ExceptClauses_FixedDetail(exc) ==
    IF exc.cls = "HTTPException" THEN exc
    ELSE HTTPException(500, <<"An internal server error occurred.">>)

ExceptClauses(exc) ==
    IF exc.cls = "HTTPException" THEN exc
    ELSE HTTPException(500,
             <<"An internal server error occurred: ">> \o exc.msg)

HandlerResult(response, body) ==
    [resp |-> response, calls |-> body.calls, tasks |-> body.tasks,
     raised |-> body.exc]

NotConfigured ==
    HTTPException(503, <<"OpenAI client (async or sync) not configured.">>)

\* The client check made only after the try body has run.
match_candidates_batch_endpoint_LateCheck(e) ==
    LET body == TryBody(e)
    IN IF ~client \/ ~sync_client
       THEN HandlerResult(HttpError(NotConfigured), body)
       ELSE IF body.exc = NoExc
       THEN HandlerResult([code |-> 202, detail |-> <<>>,
                           body |-> body.body], body)
       ELSE HandlerResult(HttpError(ExceptClauses(body.exc)), body)

match_candidates_batch_endpoint(e) ==
    IF ~client \/ ~sync_client
    THEN HandlerResult(HttpError(NotConfigured),
                       BodyResult(NoExc, NoBody, <<>>, <<>>))
    ELSE LET body == TryBody(e)
         IN IF body.exc = NoExc
            THEN HandlerResult([code |-> 202, detail |-> <<>>,
                                body |-> body.body], body)
            ELSE HandlerResult(HttpError(ExceptClauses(body.exc)), body)

\* One request to POST /match_candidates_batch, from arrival to response.
SubmitRequest ==
    /\ endpoint = "none"
    /\ \E e \in SubmitEnv :
          LET out == match_candidates_batch_endpoint(e)
          IN /\ env' = e
             /\ resp' = out.resp
             /\ calls' = out.calls
             /\ raised' = out.raised
             /\ background_tasks' = out.tasks
             /\ extract_ret' = IF Len(out.calls) > 0
                               THEN extract_keywords_from_vacancy(e)
                               ELSE <<>>
    /\ endpoint' = "submit"
    /\ UNCHANGED <<client, sync_client>>
    /\ UNCHANGED monitorVars
    /\ UNCHANGED hostVars
    /\ UNCHANGED stageVars

(***************************************************************************)
(* get_batch_job_status_endpoint                                           *)
(***************************************************************************)
StatusNotConfigured == HTTPException(503, <<"OpenAI client not configured.">>)

\* except NotFoundError: 404 / except Exception: 500 with a fixed detail.
StatusExceptClauses_Leaky(exc, batch_id) ==
    IF exc.cls = "NotFoundError"
    THEN HTTPException(404, <<"Batch job ", batch_id, " not found.">>)
    ELSE HTTPException(500, <<"Error retrieving batch job status: ">>
                            \o exc.msg)

StatusExceptClauses(exc, batch_id) ==
    IF exc.cls = "NotFoundError"
    THEN HTTPException(404, <<"Batch job ", batch_id, " not found.">>)
    ELSE HTTPException(500, <<"Error retrieving batch job status.">>)

get_batch_job_status_endpoint(e) ==
    IF ~client
    THEN [resp |-> HttpError(StatusNotConfigured), calls |-> <<>>,
          raised |-> NoExc]
    ELSE LET st == get_batch_status(e)
         IN IF st.exc = NoExc
            THEN [resp |-> [code |-> 200, detail |-> <<>>,
                            body |-> BatchJobStatus(st.value.id,
                                                    st.value.status)],
                  calls |-> <<"get_status">>, raised |-> NoExc]
            ELSE [resp |-> HttpError(StatusExceptClauses(st.exc,
                                                         e.batch_id)),
                  calls |-> <<"get_status">>, raised |-> st.exc]

\* One request to GET /batch_job/{batch_id}, from arrival to response.
StatusRequest ==
    /\ endpoint = "none"
    /\ \E e \in StatusEnv :
          LET out == get_batch_job_status_endpoint(e)
          IN /\ env' = e
             /\ resp' = out.resp
             /\ calls' = out.calls
             /\ raised' = out.raised
    /\ endpoint' = "status"
    /\ background_tasks' = <<>>
    /\ extract_ret' = <<>>
    /\ UNCHANGED <<client, sync_client>>
    /\ UNCHANGED monitorVars
    /\ UNCHANGED hostVars
    /\ UNCHANGED stageVars

(***************************************************************************)
(* Python strings and integers                                             *)
(***************************************************************************)
DigitChars == "0123456789"

\* The i-th character of a string, as a one-character string.
CharAt(s, i) == SubSeq(s, i, i)

IsDigit(c) == \E d \in 1..10 : CharAt(DigitChars, d) = c

DigitValue(c) == (CHOOSE d \in 1..10 : CharAt(DigitChars, d) = c) - 1

RECURSIVE NatToStr(_)
\* str(n) of a non-negative int.
NatToStr(n) ==
    IF n < 10 THEN CharAt(DigitChars, n + 1)
    ELSE NatToStr(n \div 10) \o CharAt(DigitChars, (n % 10) + 1)

\* str(n) / f"{n}" of an int.
IntToStr(n) == IF n < 0 THEN "-" \o NatToStr(0 - n) ELSE NatToStr(n)

RECURSIVE str_replace(_, _, _)
\* s.replace(old, new): every non-overlapping occurrence, left to right.
str_replace(s, old, new) ==
    IF Len(s) < Len(old) THEN s
    ELSE IF SubSeq(s, 1, Len(old)) = old
    THEN new \o str_replace(SubSeq(s, Len(old) + 1, Len(s)), old, new)
    ELSE CharAt(s, 1) \o str_replace(SubSeq(s, 2, Len(s)), old, new)

RECURSIVE DigitsValue(_, _)
\* Value of a string of decimal digits, acc being the value read so far.
DigitsValue(s, acc) ==
    IF Len(s) = 0 THEN acc
    ELSE DigitsValue(SubSeq(s, 2, Len(s)), 10 * acc + DigitValue(CharAt(s, 1)))

\* int(s): an optional sign followed by decimal digits, ValueError otherwise.
int(s) ==
    LET signed == Len(s) > 0 /\ CharAt(s, 1) \in {"-", "+"}
        digits == IF signed THEN SubSeq(s, 2, Len(s)) ELSE s
        valid  == /\ Len(digits) > 0
                  /\ \A i \in 1..Len(digits) : IsDigit(CharAt(digits, i))
    IN IF ~valid THEN [ok |-> FALSE, value |-> 0]
       ELSE [ok |-> TRUE,
             value |-> IF signed /\ CharAt(s, 1) = "-"
                       THEN 0 - DigitsValue(digits, 0)
                       ELSE DigitsValue(digits, 0)]

\* None and the `x or default` idiom on optional strings.
PyNone == "<None>"

Or(x, default) == IF x = PyNone \/ x = "" THEN default ELSE x

(***************************************************************************)
(* prepare_openai_batch_input                                              *)
(***************************************************************************)
\* candidates a built batch may hold in a checked run
MaxBatch == 3

CandidateIds == {-3, 0, 5, 42, 105}

\* Values of the OPENAI_MODEL environment variable.
OpenAIModels == {"gpt-4.1-nano", "gpt-4o-mini"}

\* schemas.candidate.CandidateData of the candidate with the given id.
CandidateData(id) ==
    [id |-> id,
     text |-> "profile " \o IntToStr(id),
     profileURL |-> IF id = 0 THEN PyNone
                    ELSE "https://linkedin.com/in/" \o IntToStr(id),
     fullName |-> IF id \in {0, 5} THEN PyNone
                  ELSE "Name " \o IntToStr(id)]

RECURSIVE SeqsUpTo(_, _)
\* Every sequence over S of length at most n.
SeqsUpTo(S, n) ==
    IF n = 0 THEN {<<>>}
    ELSE LET shorter == SeqsUpTo(S, n - 1)
         IN shorter \cup {Append(q, x) : q \in shorter, x \in S}

CandidateLists == {[i \in 1..Len(ids) |-> CandidateData(ids[i])] :
                      ids \in SeqsUpTo(CandidateIds, MaxBatch)}

CustomIdPrefix == "candidate_"

\* f"candidate_{candidate.id}"
CustomId(id) == CustomIdPrefix \o IntToStr(id)

\* One element of the batch input.
BatchRequest(vacancy_text, candidate, model) ==
    [custom_id |-> CustomId(candidate.id),
     method |-> "POST",
     url |-> "/v1/chat/completions",
     body |-> [model |-> model,
               system |-> vacancy_text,
               user |-> <<"Candidate Profile (ID: ", IntToStr(candidate.id),
                          "):", candidate.text>>]]

RECURSIVE prepare_openai_batch_input_Dedup(_, _, _)
\* for candidate in candidates: batch_input.append({...})
\* (the _Dedup variant leaves out a candidate whose id was already seen)
prepare_openai_batch_input_Dedup(vacancy_text, cands, model) ==
    IF Len(cands) = 0 THEN <<>>
    ELSE LET n == Len(cands)
             front == prepare_openai_batch_input_Dedup(
                          vacancy_text, SubSeq(cands, 1, n - 1), model)
         IN IF \E i \in 1..(n - 1) : cands[i].id = cands[n].id
            THEN front
            ELSE Append(front, BatchRequest(vacancy_text, cands[n], model))

prepare_openai_batch_input(vacancy_text, cands, model) ==
    [i \in 1..Len(cands) |-> BatchRequest(vacancy_text, cands[i], model)]

\* candidate_id_str = custom_id.replace("candidate_", "");
\* candidate_id = int(candidate_id_str)
\* (the _NoStrip variant reads the custom id without removing the prefix)
candidate_id_from_custom_id_NoStrip(custom_id) == int(custom_id)

candidate_id_from_custom_id(custom_id) ==
    int(str_replace(custom_id, CustomIdPrefix, ""))

\* The builder called twice with the same vacancy text and candidate list;
\* the OPENAI_MODEL variable is read from the environment on each call.
PrepareBatchInput ==
    /\ endpoint = "none"
    /\ \E cands \in CandidateLists, m1 \in OpenAIModels, m2 \in OpenAIModels :
          /\ candidates' = cands
          /\ batch_input' = prepare_openai_batch_input("vacancy", cands, m1)
          /\ batch_input_again' =
                 prepare_openai_batch_input("vacancy", cands, m2)
    /\ endpoint' = "prepare_openai_batch_input"
    /\ UNCHANGED <<client, sync_client, env, resp, calls, raised,
                   extract_ret, background_tasks>>
    /\ UNCHANGED <<results_content, recon, upc, attempt, transmissions,
                   temp_file, stage_ret, creations, remote_files>>
    /\ UNCHANGED monitorVars
    /\ UNCHANGED hostVars

(***************************************************************************)
(* The downloaded result file                                              *)
(***************************************************************************)
\* lines a downloaded result file may hold in a checked run
MaxLines == 3

\* One line of the result file, described by what the reconciler finds at
\* each step of the path it walks through the parsed line:
\*   json       "empty" | "invalid" | "object" | "array"
\*   cid_type   "missing" | "str" | "int"      (custom_id: absent, a string,
\*                                             a non-zero number)
\*   response, body, choice0, message
\*              "missing" | "null" | "object" | "string"
\*   choices    "missing" | "empty" | "list"
\*   content    "missing" | "str"
\*   embedded   "invalid" | "object" | "array"  (content parsed as JSON)
\*   score_kind, reasoning_kind
\*              "missing" | "null" | "number" / "str"
ResultLine(custom_id, score, reasoning) ==
    [json |-> "object", cid_type |-> "str", custom_id |-> custom_id,
     error |-> FALSE, response |-> "object", body |-> "object",
     choices |-> "list", choice0 |-> "object", message |-> "object",
     content |-> "str", embedded |-> "object",
     score_kind |-> "number", score |-> score,
     reasoning_kind |-> "str", reasoning |-> reasoning]

\* Ids the batch of a reconciled run was built for, and an id it was not.
SubmittedIds == {5, 42}

UnknownId == 77

WellFormedLines ==
    { ResultLine("candidate_5", 8, "strong"),
      ResultLine("candidate_42", 3, "weak"),
      ResultLine("candidate_77", 8, "other batch") }

NoScoreLine ==
    [ResultLine("candidate_42", 0, "no score given")
        EXCEPT !.score_kind = "missing"]

BaseLine == ResultLine("candidate_5", 6, "fair")

\* Lines the inner except clause or a `continue` disposes of.
SkippedLines ==
    { [BaseLine EXCEPT !.json = "empty"],
      [BaseLine EXCEPT !.json = "invalid"],
      [BaseLine EXCEPT !.error = TRUE],
      [BaseLine EXCEPT !.message = "string"],
      [BaseLine EXCEPT !.content = "missing"],
      [BaseLine EXCEPT !.embedded = "invalid"],
      [BaseLine EXCEPT !.custom_id = "candidate_x7"],
      [BaseLine EXCEPT !.reasoning_kind = "missing"] }

\* Lines on which a method is looked up on a value that lacks it.
AttributeErrorLines ==
    { [BaseLine EXCEPT !.json = "array"],
      [BaseLine EXCEPT !.response = "null"],
      [BaseLine EXCEPT !.choice0 = "null"],
      [BaseLine EXCEPT !.embedded = "array"] }

LineShapes ==
    WellFormedLines \cup {NoScoreLine} \cup SkippedLines
        \cup AttributeErrorLines

ResultTexts == SeqsUpTo(LineShapes, MaxLines)

(***************************************************************************)
(* process_openai_results: one line                                        *)
(***************************************************************************)
\* Outcome of the loop body for one line: "skip" (continue), "abort" (an
\* exception the inner except clause does not name), "keep".
LineOutcome(outcome, ids, scores) ==
    [outcome |-> outcome, ids |-> ids, scores |-> scores]

\* schemas.candidate.CandidateScore
CandidateScore(candidate_id, score, reasoning, profileURL, fullName) ==
    [candidate_id |-> candidate_id, score |-> score,
     reasoning |-> reasoning, profileURL |-> profileURL,
     fullName |-> fullName, person_data |-> PyNone]

\* candidate_details_map.get(candidate_id) is not None
InDetailsMap(candidate_id, cands) ==
    \E i \in 1..Len(cands) : cands[i].id = candidate_id

\* candidate_details_map = {c.id: c for c in initial_candidates}: the last
\* candidate with the id.
candidate_details_map_get(candidate_id, cands) ==
    cands[CHOOSE i \in 1..Len(cands) :
            /\ cands[i].id = candidate_id
            /\ \A j \in (i + 1)..Len(cands) : cands[j].id # candidate_id]

\* score_data.get("score", 0.0)
\* (the _Required variant is score_data["score"])
score_data_get_score_Required(line) ==
    IF line.score_kind = "missing" THEN [kind |-> "KeyError", value |-> 0]
    ELSE [kind |-> line.score_kind, value |-> line.score]

score_data_get_score(line) ==
    IF line.score_kind = "missing" THEN [kind |-> "number", value |-> 0]
    ELSE [kind |-> line.score_kind, value |-> line.score]

\* final_scores.append(CandidateScore(...)) with the display fields of the
\* matching candidate, or None / "N/A" when there is none.
\* (the _DropUnknown variant appends only for a submitted candidate)
final_scores_append_DropUnknown(candidate_id, score, reasoning, cands) ==
    IF InDetailsMap(candidate_id, cands)
    THEN LET initial_detail == candidate_details_map_get(candidate_id, cands)
         IN <<CandidateScore(candidate_id, score, reasoning,
                             initial_detail.profileURL,
                             initial_detail.fullName)>>
    ELSE <<>>

final_scores_append(candidate_id, score, reasoning, cands) ==
    IF InDetailsMap(candidate_id, cands)
    THEN LET initial_detail == candidate_details_map_get(candidate_id, cands)
         IN <<CandidateScore(candidate_id, score, reasoning,
                             initial_detail.profileURL,
                             initial_detail.fullName)>>
    ELSE <<CandidateScore(candidate_id, score, reasoning, PyNone, "N/A")>>

\* Lines 363-380: the custom id is read, the embedded JSON parsed and the
\* CandidateScore validated and appended.
ScoreStage(line, cands) ==
    IF line.cid_type = "missing" \/ line.custom_id = ""
    THEN LineOutcome("skip", <<>>, <<>>)
    ELSE IF line.cid_type # "str"
    THEN LineOutcome("abort", <<>>, <<>>)
    ELSE LET candidate_id == candidate_id_from_custom_id(line.custom_id)
             score == score_data_get_score(line)
         IN IF ~candidate_id.ok
            THEN LineOutcome("skip", <<>>, <<>>)
            ELSE IF line.embedded = "invalid"
            THEN LineOutcome("skip", <<candidate_id.value>>, <<>>)
            ELSE IF line.embedded # "object"
            THEN LineOutcome("abort", <<candidate_id.value>>, <<>>)
            ELSE IF score.kind # "number" \/ line.reasoning_kind # "str"
            THEN LineOutcome("skip", <<candidate_id.value>>, <<>>)
            ELSE LineOutcome("keep", <<candidate_id.value>>,
                             final_scores_append(candidate_id.value,
                                                 score.value,
                                                 line.reasoning, cands))

\* Lines 335-361: the path from the line to the message content.
ParseLine(line, cands) ==
    IF line.json = "empty" THEN LineOutcome("skip", <<>>, <<>>)
    ELSE IF line.json = "invalid" THEN LineOutcome("skip", <<>>, <<>>)
    ELSE IF line.json # "object" THEN LineOutcome("abort", <<>>, <<>>)
    ELSE IF line.response \in {"null", "string"}
    THEN LineOutcome("abort", <<>>, <<>>)
    ELSE IF line.error THEN LineOutcome("skip", <<>>, <<>>)
    ELSE IF line.response = "object" /\ line.body \in {"null", "string"}
    THEN LineOutcome("abort", <<>>, <<>>)
    ELSE IF \/ line.response = "missing"
            \/ line.body = "missing"
            \/ line.choices # "list"
    THEN LineOutcome("skip", <<>>, <<>>)
    ELSE IF line.choice0 # "object" THEN LineOutcome("abort", <<>>, <<>>)
    ELSE IF line.message # "object" THEN LineOutcome("skip", <<>>, <<>>)
    ELSE IF line.content # "str" THEN LineOutcome("skip", <<>>, <<>>)
    ELSE ScoreStage(line, cands)

(***************************************************************************)
(* save_results_to_file on a list of scores                                *)
(***************************************************************************)
\* sorted_output_candidates[:50]
TopN == 50

\* The vacancy id the monitor passes on.
VacancyId == 7

\* One formatted output candidate (lines 54-69).
\* (the _RawFields variant copies the display fields as they are)
OutputCandidate_RawFields(score_item, vacancy_id) ==
    [name |-> score_item.fullName,
     sourceId |-> IntToStr(score_item.candidate_id),
     sourceUrl |-> score_item.profileURL,
     sourceType |-> "linkedin",
     vacancyId |-> vacancy_id,
     info |-> [score |-> score_item.score,
               reasoning |-> Or(score_item.reasoning, "")]]

OutputCandidate(score_item, vacancy_id) ==
    [name |-> Or(score_item.fullName, "N/A"),
     sourceId |-> IntToStr(score_item.candidate_id),
     sourceUrl |-> Or(score_item.profileURL, ""),
     sourceType |-> "linkedin",
     vacancyId |-> vacancy_id,
     info |-> [score |-> score_item.score,
               reasoning |-> Or(score_item.reasoning, "")]]

\* Position of output_candidates[i] in sorted(output_candidates, key=score,
\* reverse=True): behind every element with a greater score and behind the
\* earlier elements with the same score (the sort is stable).
\* (the _Ascending variant is the sort without reverse=True)
SortPosition_Ascending(output_candidates, i) ==
    1 + Cardinality({j \in 1..Len(output_candidates) :
            \/ output_candidates[j].info.score
                   < output_candidates[i].info.score
            \/ /\ output_candidates[j].info.score
                      = output_candidates[i].info.score
               /\ j < i})

SortPosition(output_candidates, i) ==
    1 + Cardinality({j \in 1..Len(output_candidates) :
            \/ output_candidates[j].info.score
                   > output_candidates[i].info.score
            \/ /\ output_candidates[j].info.score
                      = output_candidates[i].info.score
               /\ j < i})

\* sorted(output_candidates, key=score, reverse=True)
sorted_output_candidates(output_candidates) ==
    LET n == Len(output_candidates)
        position == [i \in 1..n |-> SortPosition(output_candidates, i)]
    IN [k \in 1..n |->
           output_candidates[CHOOSE i \in 1..n : position[i] = k]]

\* s[:n]
Slice(s, n) == SubSeq(s, 1, IF Len(s) < n THEN Len(s) ELSE n)

\* Steps 1-3 of save_results_to_file: format, sort, take the top 50.
top_50_candidates(scores, vacancy_id) ==
    Slice(sorted_output_candidates(
              [i \in 1..Len(scores) |-> OutputCandidate(scores[i],
                                                        vacancy_id)]),
          TopN)

\* Outcome of one call of save_results_to_file.
SaveOutcome(written, out, sent, delivered, nlogins, nforwards, path) ==
    [called |-> TRUE, written |-> written, final_output |-> out,
     sent |-> sent, delivered |-> delivered, logins |-> nlogins,
     forwards |-> nforwards, filepath |-> path]

NotSaved ==
    [called |-> FALSE, written |-> FALSE, final_output |-> <<>>,
     sent |-> <<>>, delivered |-> FALSE, logins |-> 0, forwards |-> 0,
     filepath |-> FALSE]

\* save_results_to_file on the list scores; write, login and bulk are the
\* outcomes of the file write and of the two partner requests.  sent is the
\* payload of the bulk-create request, filepath whether a path is returned.
\* (the _SendFirst variant forwards before it writes the file)
SaveScores_WritesEmpty(scores, vacancy_id, write, login, bulk) ==
    IF write = "ioerror"
    THEN SaveOutcome(FALSE, <<>>, <<>>, FALSE, 0, 0, FALSE)
    ELSE LET final_output == top_50_candidates(scores, vacancy_id)
             api == send_candidates_to_api(login, bulk)
         IN SaveOutcome(TRUE, final_output,
                        IF api.forwards > 0 THEN final_output ELSE <<>>,
                        api.forwards > 0 /\ bulk = "ok",
                        api.logins, api.forwards, ~api.raises)

SaveScores_SendFirst(scores, vacancy_id, write, login, bulk) ==
    IF Len(scores) = 0
    THEN SaveOutcome(FALSE, <<>>, <<>>, FALSE, 0, 0, FALSE)
    ELSE LET final_output == top_50_candidates(scores, vacancy_id)
             api == send_candidates_to_api(login, bulk)
         IN SaveOutcome(write = "ok" /\ ~api.raises,
                        IF write = "ok" /\ ~api.raises
                        THEN final_output ELSE <<>>,
                        IF api.forwards > 0 THEN final_output ELSE <<>>,
                        api.forwards > 0 /\ bulk = "ok",
                        api.logins, api.forwards,
                        write = "ok" /\ ~api.raises)

SaveScores(scores, vacancy_id, write, login, bulk) ==
    IF Len(scores) = 0
    THEN SaveOutcome(FALSE, <<>>, <<>>, FALSE, 0, 0, FALSE)
    ELSE IF write = "ioerror"
    THEN SaveOutcome(FALSE, <<>>, <<>>, FALSE, 0, 0, FALSE)
    ELSE LET final_output == top_50_candidates(scores, vacancy_id)
             api == send_candidates_to_api(login, bulk)
         IN SaveOutcome(TRUE, final_output,
                        IF api.forwards > 0 THEN final_output ELSE <<>>,
                        api.forwards > 0 /\ bulk = "ok",
                        api.logins, api.forwards, ~api.raises)

(***************************************************************************)
(* process_openai_results on a result text                                 *)
(***************************************************************************)
RECURSIVE strip(_)
\* results_content.strip().split('\n'): empty lines at both ends go.
strip(lines) ==
    IF Len(lines) = 0 THEN lines
    ELSE IF Head(lines).json = "empty" THEN strip(Tail(lines))
    ELSE IF lines[Len(lines)].json = "empty"
    THEN strip(SubSeq(lines, 1, Len(lines) - 1))
    ELSE lines

RECURSIVE ForLines(_, _)
\* for line in results_lines: the loop stops at the first line whose
\* exception the inner except clause does not catch.
ForLines(lines, cands) ==
    IF Len(lines) = 0
    THEN [aborted |-> FALSE, processed |-> 0, ids |-> <<>>, scores |-> <<>>]
    ELSE LET n == Len(lines)
             front == ForLines(SubSeq(lines, 1, n - 1), cands)
             this == ParseLine(lines[n], cands)
         IN IF front.aborted THEN front
            ELSE [aborted |-> this.outcome = "abort",
                  processed |-> front.processed + 1,
                  ids |-> front.ids \o this.ids,
                  scores |-> front.scores \o this.scores]

\* Lines 389-410: the scores of the candidates found in the database get
\* their person/education/position data attached.
Enrich(scores, ids, db) ==
    IF Len(ids) = 0 \/ db # "details" THEN scores
    ELSE [i \in 1..Len(scores) |->
              [scores[i] EXCEPT !.person_data = "attached"]]

\* Outcome of one reconciliation: the loop, then the save step.
ReconOutcome(lines, loop, scores, save) ==
    [ran |-> TRUE, results_lines |-> lines, aborted |-> loop.aborted,
     processed |-> loop.processed, final_scores |-> scores, save |-> save]

NoRecon ==
    [ran |-> FALSE, results_lines |-> <<>>, aborted |-> FALSE,
     processed |-> 0, final_scores |-> <<>>, save |-> NotSaved]

\* process_openai_results(results_content, initial_candidates, vacancy_id)
ProcessResults(text, cands, vacancy_id, db, write, login, bulk) ==
    LET results_lines == strip(text)
        loop == ForLines(results_lines, cands)
        final_scores == Enrich(loop.scores, loop.ids, db)
    IN IF loop.aborted
       THEN ReconOutcome(results_lines, loop, loop.scores, NotSaved)
       ELSE IF Len(final_scores) = 0
       THEN ReconOutcome(results_lines, loop, final_scores, NotSaved)
       ELSE ReconOutcome(results_lines, loop, final_scores,
                         SaveScores(final_scores, vacancy_id,
                                    write, login, bulk))

\* The candidates the reconciled batch was built for.
InitialCandidates == <<CandidateData(5), CandidateData(42)>>

\* Outcomes of the detail query, the file write and the partner requests.
DbOutcomes == {"details", "unavailable"}

WriteOutcomes == {"ok", "ioerror"}

RequestOutcomes == {"ok", "raise"}

\* What the collaborators answer during one reconciliation.
ReconEnv(db, write, login, bulk) ==
    [db |-> db, write |-> write, login |-> login, bulk |-> bulk]

\* The monitor hands a downloaded result text to process_openai_results.
Reconcile ==
    /\ endpoint = "none"
    /\ client
    /\ \E text \in ResultTexts, db \in DbOutcomes, write \in WriteOutcomes,
          login \in RequestOutcomes, bulk \in RequestOutcomes :
          /\ results_content' = text
          /\ env' = ReconEnv(db, write, login, bulk)
          /\ recon' = ProcessResults(text, InitialCandidates, VacancyId,
                                     db, write, login, bulk)
    /\ candidates' = InitialCandidates
    /\ endpoint' = "process_openai_results"
    /\ UNCHANGED <<client, sync_client, resp, calls, raised,
                   extract_ret, background_tasks>>
    /\ UNCHANGED <<batch_input, batch_input_again, upc, attempt,
                   transmissions, temp_file, stage_ret, creations, remote_files>>
    /\ UNCHANGED monitorVars
    /\ UNCHANGED hostVars

\* scores a directly saved list may hold in a checked run
MaxSaved == 60

SaveSizes == {0, 1, 3, TopN - 1, TopN, TopN + 1, MaxSaved}

\* Score of the i-th element of a list is (a*i + b) % m: all distinct,
\* many ties, all equal, ascending, descending.
ScorePatterns ==
    {<<7, 0, 61>>, <<3, 1, 5>>, <<0, 4, 10>>, <<1, 0, 1000>>,
     <<999, 0, 1000>>}

ScoreList(n, p) ==
    [i \in 1..n |->
        CandidateScore(i, (p[1] * i + p[2]) % p[3], "reasoning",
                       IF i % 2 = 0 THEN PyNone ELSE "https://linkedin.com",
                       IF i % 3 = 0 THEN PyNone ELSE "Full Name")]

ScoreLists == {ScoreList(n, p) : n \in SaveSizes, p \in ScorePatterns}

\* save_results_to_file called on a list of scores.
SaveResultsToFile ==
    /\ endpoint = "none"
    /\ \E scores \in ScoreLists, write \in WriteOutcomes,
          login \in RequestOutcomes, bulk \in RequestOutcomes :
          /\ env' = ReconEnv("unavailable", write, login, bulk)
          /\ recon' = ReconOutcome(<<>>,
                                   [aborted |-> FALSE, processed |-> 0],
                                   scores,
                                   SaveScores(scores, VacancyId,
                                              write, login, bulk))
    /\ results_content' = <<>>
    /\ candidates' = <<>>
    /\ endpoint' = "save_results_to_file"
    /\ UNCHANGED <<client, sync_client, resp, calls, raised,
                   extract_ret, background_tasks>>
    /\ UNCHANGED <<batch_input, batch_input_again, upc, attempt,
                   transmissions, temp_file, stage_ret, creations, remote_files>>
    /\ UNCHANGED monitorVars
    /\ UNCHANGED hostVars

(***************************************************************************)
(* create_and_upload_batch_file and create_batch_job called on their own   *)
(***************************************************************************)
\* for attempt in range(10)
\* (the _OneMore variant is range(11))
UploadLoopGuard_OneMore(a) == a <= UploadAttempts

UploadLoopGuard(a) == a < UploadAttempts

\* The id the remote service gives to its n-th stored file.
FileId(n) == "file_" \o NatToStr(n)

\* The call up to the loop: without a client, or when the temporary file
\* cannot be written, None is returned at once.
UploadStart ==
    /\ endpoint = "none"
    /\ upc = "idle"
    /\ endpoint' = "create_and_upload_batch_file"
    /\ \E write \in WriteOutcomes :
          IF client /\ write = "ok"
          THEN /\ temp_file' = TRUE
               /\ upc' = "loop"
          ELSE /\ temp_file' = FALSE
               /\ upc' = "returned"
    /\ attempt' = 0
    /\ stage_ret' = ""
    /\ UNCHANGED <<client, sync_client, env, resp, calls, raised,
                   extract_ret, background_tasks>>
    /\ UNCHANGED <<candidates, batch_input, batch_input_again,
                   results_content, recon, transmissions, creations,
                   remote_files>>
    /\ UNCHANGED monitorVars
    /\ UNCHANGED hostVars

\* One attempt that succeeds: the file is stored remotely, the temporary
\* file is removed (or its removal fails and is logged) and the id
\* returned.
UploadAttemptSucceeds ==
    /\ upc = "loop"
    /\ UploadLoopGuard(attempt)
    /\ transmissions' = transmissions + 1
    /\ remote_files' = Append(remote_files, FileId(Len(remote_files) + 1))
    /\ stage_ret' = FileId(Len(remote_files) + 1)
    /\ \E removed \in BOOLEAN : temp_file' = ~removed
    /\ upc' = "returned"
    /\ UNCHANGED <<client, sync_client, env, endpoint, resp, calls, raised,
                   extract_ret, background_tasks>>
    /\ UNCHANGED <<candidates, batch_input, batch_input_again,
                   results_content, recon, attempt, creations>>
    /\ UNCHANGED monitorVars
    /\ UNCHANGED hostVars

\* One attempt that raises, either when the temporary file is opened or in
\* client.files.create; the except clause sleeps and the loop goes on.
UploadAttemptFails ==
    /\ upc = "loop"
    /\ UploadLoopGuard(attempt)
    /\ \E opened \in BOOLEAN :
          transmissions' = IF opened THEN transmissions + 1
                           ELSE transmissions
    /\ attempt' = attempt + 1
    /\ UNCHANGED <<client, sync_client, env, endpoint, resp, calls, raised,
                   extract_ret, background_tasks>>
    /\ UNCHANGED <<candidates, batch_input, batch_input_again,
                   results_content, recon, upc, temp_file, stage_ret,
                   creations, remote_files>>
    /\ UNCHANGED monitorVars
    /\ UNCHANGED hostVars

\* The loop is exhausted: return None (the temporary file stays).
UploadExhausted ==
    /\ upc = "loop"
    /\ ~UploadLoopGuard(attempt)
    /\ stage_ret' = ""
    /\ upc' = "returned"
    /\ UNCHANGED <<client, sync_client, env, endpoint, resp, calls, raised,
                   extract_ret, background_tasks>>
    /\ UNCHANGED <<candidates, batch_input, batch_input_again,
                   results_content, recon, attempt, transmissions,
                   temp_file, creations, remote_files>>
    /\ UNCHANGED monitorVars
    /\ UNCHANGED hostVars

\* What the remote service answers to a job creation.
CreateEnv ==
    {EnvFields("error", <<>>, <<>>, "ok", "rows", 0, 0, create,
               "validating", "boom", bid) :
        create \in {"ok", "raise"}, bid \in BatchIds}

\* create_batch_job called once: a single client.batches.create call.
CreateBatchJob ==
    /\ endpoint = "none"
    /\ upc = "idle"
    /\ endpoint' = "create_batch_job"
    /\ \E e \in CreateEnv :
          /\ env' = e
          /\ stage_ret' = create_batch_job(e)
    /\ creations' = IF client THEN creations + 1 ELSE creations
    /\ UNCHANGED <<client, sync_client, resp, calls, raised,
                   extract_ret, background_tasks>>
    /\ UNCHANGED <<candidates, batch_input, batch_input_again,
                   results_content, recon, upc, attempt, transmissions,
                   temp_file, remote_files>>
    /\ UNCHANGED monitorVars
    /\ UNCHANGED hostVars

(***************************************************************************)
(* extract_keywords_from_vacancy and fetch_candidates_from_db called on    *)
(* their own                                                               *)
(***************************************************************************)
\* keywords the text-understanding service may return in a checked run
MaxKeywords == 7

\* locations the text-understanding service may return in a checked run
MaxLocations == 2

ServiceKeywords ==
    <<"python", "sql", "django", "aws", "docker", "kubernetes", "fastapi",
      "postgres", "redis", "linux", "git", "kafka">>

ServiceKeywordLists ==
    {SubSeq(ServiceKeywords, 1, n) :
        n \in 0..(IF MaxKeywords < Len(ServiceKeywords)
                  THEN MaxKeywords ELSE Len(ServiceKeywords))}

ServiceLocationLists ==
    SeqsUpTo({"FRANCE", "GERMANY", "POLAND", "CYPRUS"}, MaxLocations)

\* What the text-understanding service answers to one extraction.
ExtractEnv ==
    {EnvFields(llm, kws, locs, "ok", "rows", 0, 0, "ok", "validating",
               "boom", "batch_a") :
        llm \in {"ok", "error"}, kws \in ServiceKeywordLists,
        locs \in ServiceLocationLists}

\* extract_keywords_from_vacancy(vacancy_text) called once.
ExtractKeywords ==
    /\ endpoint = "none"
    /\ endpoint' = "extract_keywords_from_vacancy"
    /\ \E e \in ExtractEnv :
          /\ env' = e
          /\ extract_ret' = extract_keywords_from_vacancy(e)
    /\ calls' = <<"extract">>
    /\ UNCHANGED <<client, sync_client, resp, raised, background_tasks>>
    /\ UNCHANGED stageVars
    /\ UNCHANGED monitorVars
    /\ UNCHANGED hostVars

\* What the data store answers to one candidate query.
FetchEnv ==
    {EnvFields("error", <<>>, <<>>, "ok", db[1], db[2], 0, "ok",
               "validating", "boom", "batch_a") :
        db \in {<<"unavailable", 0>>, <<"error", 0>>}
               \cup {<<"rows", n>> : n \in 0..MaxCandidates}}

\* fetch_candidates_from_db(keywords=..., location=...) called once:
\* get_db_connection is called once; the query runs when it returned a
\* connection.
FetchCandidatesFromDb ==
    /\ endpoint = "none"
    /\ upc = "idle"
    /\ endpoint' = "fetch_candidates_from_db"
    /\ \E e \in FetchEnv :
          LET fetched == fetch_candidates_from_db({"keywords", "location"}, e)
          IN /\ env' = e
             /\ raised' = fetched.exc
             /\ calls' = IF e.db = "unavailable"
                         THEN <<"get_db_connection">>
                         ELSE <<"get_db_connection", "db_query">>
    /\ UNCHANGED <<client, sync_client, resp, extract_ret, background_tasks>>
    /\ UNCHANGED stageVars
    /\ UNCHANGED monitorVars
    /\ UNCHANGED hostVars

(***************************************************************************)
(* Settings loaded from the environment file                               *)
(***************************************************************************)
\* The fields of class Settings.
SettingsFields ==
    {"openai_api_key", "db_name", "db_user", "db_password", "db_host",
     "db_port", "output_dir"}

\* Settings(): extra='ignore' drops every pair of the environment file
\* whose key is not a field of the class.
Settings(pairs) == {kv \in pairs : kv[1] \in SettingsFields}

\* Environment files an operator may deploy the service with.
DotEnvs ==
    { {},
      {<<"output_dir", "out/">>},
      {<<"acceptance_policy", "keep_all">>},
      {<<"acceptance_policy", "threshold">>, <<"pass_threshold", "7">>} }

\* The module is imported with an environment file and the monitor hands a
\* downloaded result text to process_openai_results.  The reconciler and
\* the save step read no setting but output_dir.
ReconcileUnderSettings ==
    /\ endpoint = "none"
    /\ client
    /\ \E pairs \in DotEnvs, text \in ResultTexts, db \in DbOutcomes :
          /\ dotenv' = pairs
          /\ results_content' = text
          /\ env' = [db |-> db, write |-> "ok", login |-> "ok",
                     bulk |-> "ok", settings |-> Settings(pairs)]
          /\ recon' = ProcessResults(text, InitialCandidates, VacancyId,
                                     db, "ok", "ok", "ok")
    /\ candidates' = InitialCandidates
    /\ endpoint' = "process_openai_results"
    /\ UNCHANGED <<client, sync_client, resp, calls, raised,
                   extract_ret, background_tasks>>
    /\ UNCHANGED <<batch_input, batch_input_again, upc, attempt,
                   transmissions, temp_file, stage_ret, creations,
                   remote_files>>
    /\ UNCHANGED <<now, files, output_files, run, vacancies_vec, accepted,
                   script_runs>>
    /\ UNCHANGED monitorVars

(***************************************************************************)
(* Two matching runs in one process                                        *)
(***************************************************************************)
\* seconds the clock may reach in a checked run
MaxClock == 2

Runs == {1, 2}

\* A run: position, timestamps in its two file names (-1: none yet), failed
\* upload attempts, and the run whose payload the remote service received
\* from it (0: nothing yet).
RunState(pc, stamp, attempts, payload, out_stamp) ==
    [pc |-> pc, timestamp |-> stamp, attempt |-> attempts,
     uploaded |-> payload, out_timestamp |-> out_stamp]

NotStarted == RunState("start", -1, 0, 0, -1)

\* The wait between two upload attempts: time.sleep, which does not return
\* control to the event loop.
UploadRetrySleep == "time.sleep"

\* The one thread of the event loop is held by a run sleeping in
\* time.sleep: no other coroutine is resumed until it returns.
LoopBlocked ==
    \E r \in Runs : run[r].pc = "backoff" /\ UploadRetrySleep = "time.sleep"

\* A second of wall-clock time passes.
Tick ==
    /\ now < MaxClock
    /\ now' = now + 1
    /\ UNCHANGED <<dotenv, files, output_files, run, vacancies_vec,
                   accepted, script_runs>>
    /\ UNCHANGED apiVars
    /\ UNCHANGED stageVars
    /\ UNCHANGED monitorVars

\* create_and_upload_batch_file up to the first await: the file named after
\* the current second is opened with mode "w" and the payload written.
RunWritePayload(r) ==
    /\ ~LoopBlocked
    /\ client
    /\ run[r].pc = "start"
    /\ files' = [files EXCEPT ![now] = r]
    /\ run' = [run EXCEPT ![r] = RunState("written", now, 0, 0, -1)]
    /\ UNCHANGED <<dotenv, now, output_files, vacancies_vec, accepted,
                   script_runs>>
    /\ UNCHANGED apiVars
    /\ UNCHANGED stageVars
    /\ UNCHANGED monitorVars

\* One iteration of the upload loop up to the await: the file is opened
\* with mode "rb" and client.files.create is awaited with it.
RunSendPayload(r) ==
    /\ ~LoopBlocked
    /\ run[r].pc = "written"
    /\ files[run[r].timestamp] # 0
    /\ run' = [run EXCEPT ![r].pc = "sending",
                          ![r].uploaded = files[run[r].timestamp]]
    /\ UNCHANGED <<dotenv, now, files, output_files, vacancies_vec,
                   accepted, script_runs>>
    /\ UNCHANGED apiVars
    /\ UNCHANGED stageVars
    /\ UNCHANGED monitorVars

\* The file is gone: open(..., "rb") raises in every iteration, each
\* followed by a blocking time.sleep, and the function returns None.
RunPayloadMissing(r) ==
    /\ ~LoopBlocked
    /\ run[r].pc = "written"
    /\ files[run[r].timestamp] = 0
    /\ now < MaxClock
    /\ \E t \in (now + 1)..MaxClock : now' = t
    /\ run' = [run EXCEPT ![r].pc = "failed",
                          ![r].attempt = UploadAttempts]
    /\ UNCHANGED <<dotenv, files, output_files, vacancies_vec, accepted,
                   script_runs>>
    /\ UNCHANGED apiVars
    /\ UNCHANGED stageVars
    /\ UNCHANGED monitorVars

\* The upload is answered: the file is removed if it exists and the file
\* id returned.
RunUploaded(r) ==
    /\ ~LoopBlocked
    /\ run[r].pc = "sending"
    /\ files' = [files EXCEPT ![run[r].timestamp] = 0]
    /\ run' = [run EXCEPT ![r].pc = "uploaded"]
    /\ UNCHANGED <<dotenv, now, output_files, vacancies_vec, accepted,
                   script_runs>>
    /\ UNCHANGED apiVars
    /\ UNCHANGED stageVars
    /\ UNCHANGED monitorVars

\* The upload raises: the except clause starts its sleep of at least ten
\* seconds.
RunUploadFails(r) ==
    /\ ~LoopBlocked
    /\ run[r].pc = "sending"
    /\ run' = [run EXCEPT ![r].pc = "backoff",
                          ![r].attempt = run[r].attempt + 1,
                          ![r].uploaded = 0]
    /\ UNCHANGED <<dotenv, now, files, output_files, vacancies_vec,
                   accepted, script_runs>>
    /\ UNCHANGED apiVars
    /\ UNCHANGED stageVars
    /\ UNCHANGED monitorVars

\* The sleep returns: the next iteration, or None after the last one.
RunBackoffEnds(r) ==
    /\ run[r].pc = "backoff"
    /\ now < MaxClock
    /\ \E t \in (now + 1)..MaxClock : now' = t
    /\ run' = [run EXCEPT ![r].pc = IF UploadLoopGuard(run[r].attempt)
                                     THEN "written" ELSE "failed"]
    /\ UNCHANGED <<dotenv, files, output_files, vacancies_vec, accepted,
                   script_runs>>
    /\ UNCHANGED apiVars
    /\ UNCHANGED stageVars
    /\ UNCHANGED monitorVars

\* save_results_to_file of the run, later: the file named after the current
\* second is opened with mode "w" and the ranked output written.
RunSaveResults(r) ==
    /\ ~LoopBlocked
    /\ run[r].pc = "uploaded"
    /\ output_files' = [output_files EXCEPT ![now] = r]
    /\ run' = [run EXCEPT ![r].pc = "saved", ![r].out_timestamp = now]
    /\ UNCHANGED <<dotenv, now, files, vacancies_vec, accepted,
                   script_runs>>
    /\ UNCHANGED apiVars
    /\ UNCHANGED stageVars
    /\ UNCHANGED monitorVars

(***************************************************************************)
(* trigger_recruiting_ai.py                                                *)
(***************************************************************************)
\* runs of the script in a checked run
MaxRuns == 3

\* ids of the rows of vacancies_vec
VacancyRows == {7, 8, 9}

\* What the matching API answers to the script's POST.
ApiAnswers ==
    { [exc |-> "none", status_code |-> 202],
      [exc |-> "none", status_code |-> 500],
      [exc |-> "RequestError", status_code |-> 0] }

\* process_single_vacancy: the POST and what the script does with the
\* answer.  The result is the returned tuple and the table afterwards.
process_single_vacancy(table, vacancy_id, answer) ==
    IF answer.exc = "none" /\ answer.status_code = 202
    THEN [ret |-> <<TRUE, vacancy_id>>, table |-> table]
    ELSE [ret |-> <<FALSE, vacancy_id>>, table |-> table]

\* Someone enters a vacancy that was never accepted as needing processing.
VacancyEntered ==
    /\ \E v \in VacancyRows :
          /\ ~vacancies_vec[v]
          /\ accepted[v] = 0
          /\ vacancies_vec' = [vacancies_vec EXCEPT ![v] = TRUE]
    /\ UNCHANGED <<dotenv, now, files, output_files, run, accepted,
                   script_runs>>
    /\ UNCHANGED apiVars
    /\ UNCHANGED stageVars
    /\ UNCHANGED monitorVars

\* Someone withdraws a vacancy.
VacancyWithdrawn ==
    /\ \E v \in VacancyRows :
          /\ vacancies_vec[v]
          /\ vacancies_vec' = [vacancies_vec EXCEPT ![v] = FALSE]
    /\ UNCHANGED <<dotenv, now, files, output_files, run, accepted,
                   script_runs>>
    /\ UNCHANGED apiVars
    /\ UNCHANGED stageVars
    /\ UNCHANGED monitorVars

\* One run of process_new_vacancies_and_call_api: one row with
\* need_to_be_processed = TRUE is selected (LIMIT 1, no ORDER BY) and
\* submitted; the connection is closed without a commit.
TriggerRun ==
    /\ script_runs < MaxRuns
    /\ script_runs' = script_runs + 1
    /\ \E db \in {"ok", "error"} :
          IF db = "error" \/ \A v \in VacancyRows : ~vacancies_vec[v]
          THEN UNCHANGED <<vacancies_vec, accepted>>
          ELSE \E v \in {w \in VacancyRows : vacancies_vec[w]},
                  answer \in ApiAnswers :
                  LET done == process_single_vacancy(vacancies_vec, v,
                                                     answer)
                  IN /\ vacancies_vec' = done.table
                     /\ accepted' = IF done.ret[1]
                                    THEN [accepted EXCEPT ![v] = @ + 1]
                                    ELSE accepted
    /\ UNCHANGED <<dotenv, now, files, output_files, run>>
    /\ UNCHANGED apiVars
    /\ UNCHANGED stageVars
    /\ UNCHANGED monitorVars

(***************************************************************************)
(* Specifications                                                          *)
(***************************************************************************)
Init ==
    /\ remote = [status |-> "validating", output_file_id |-> FALSE]
    /\ mpc = "retrieve"
    /\ batch_job = NoJob
    /\ wait = 0
    /\ elapsed = 0
    /\ retrievals = 0
    /\ sleeps = 0
    /\ downloads = 0
    /\ download_result = "none"
    /\ reconciliations = 0
    /\ failure_reports = 0
    /\ artifacts = 0
    /\ logins = 0
    /\ forwards = 0
    /\ suspensions = 0
    /\ \E key \in BOOLEAN : client = key /\ sync_client = key
    /\ env = NoEnv
    /\ endpoint = "none"
    /\ resp = NoResp
    /\ calls = <<>>
    /\ raised = NoExc
    /\ extract_ret = <<>>
    /\ background_tasks = <<>>
    /\ candidates = <<>>
    /\ batch_input = <<>>
    /\ batch_input_again = <<>>
    /\ results_content = <<>>
    /\ recon = NoRecon
    /\ upc = "idle"
    /\ attempt = 0
    /\ transmissions = 0
    /\ temp_file = FALSE
    /\ stage_ret = ""
    /\ creations = 0
    /\ remote_files = <<>>
    /\ dotenv = {}
    /\ now = 0
    /\ files = [t \in 0..MaxClock |-> 0]
    /\ output_files = [t \in 0..MaxClock |-> 0]
    /\ run = [r \in Runs |-> NotStarted]
    /\ vacancies_vec = [v \in VacancyRows |-> FALSE]
    /\ accepted = [v \in VacancyRows |-> 0]
    /\ script_runs = 0

NextMonitor ==
    \/ RemoteAdvance
    \/ MonitorRetrieveStatus
    \/ MonitorRetrieveError
    \/ MonitorDownloadFails
    \/ MonitorDownloadAndProcess
    \/ MonitorWake

NextApi ==
    \/ SubmitRequest
    \/ StatusRequest

SpecMonitor == Init /\ [][NextMonitor]_vars

\* The event loop resumes a task whose awaited call has finished: a sleep
\* returns, and a retrieval or a download returns or raises.
MonitorFairness ==
    /\ WF_vars(MonitorWake)
    /\ WF_vars(MonitorRetrieveStatus \/ MonitorRetrieveError)
    /\ WF_vars(MonitorDownloadFails \/ MonitorDownloadAndProcess)

SpecMonitorFair == Init /\ [][NextMonitor]_vars /\ MonitorFairness

SpecApi == Init /\ [][NextApi]_vars

NextBuild == PrepareBatchInput

SpecBuild == Init /\ [][NextBuild]_vars

NextReconcile ==
    \/ Reconcile
    \/ SaveResultsToFile

SpecReconcile == Init /\ [][NextReconcile]_vars

NextStages ==
    \/ SubmitRequest
    \/ UploadStart
    \/ UploadAttemptSucceeds
    \/ UploadAttemptFails
    \/ UploadExhausted
    \/ CreateBatchJob
    \/ FetchCandidatesFromDb

SpecStages == Init /\ [][NextStages]_vars

NextExtract == ExtractKeywords

SpecExtract == Init /\ [][NextExtract]_vars

NextPolicy == ReconcileUnderSettings

SpecPolicy == Init /\ [][NextPolicy]_vars

NextTwoRuns ==
    \/ Tick
    \/ \E r \in Runs : RunWritePayload(r)
    \/ \E r \in Runs : RunSendPayload(r)
    \/ \E r \in Runs : RunPayloadMissing(r)
    \/ \E r \in Runs : RunUploaded(r)
    \/ \E r \in Runs : RunUploadFails(r)
    \/ \E r \in Runs : RunBackoffEnds(r)
    \/ \E r \in Runs : RunSaveResults(r)

SpecTwoRuns == Init /\ [][NextTwoRuns]_vars

NextTrigger ==
    \/ VacancyEntered
    \/ VacancyWithdrawn
    \/ TriggerRun

SpecTrigger == Init /\ [][NextTrigger]_vars

(***************************************************************************)
(* Properties of the monitor task (SpecMonitor)                            *)
(***************************************************************************)
CompletedWithOutput ==
    /\ batch_job.kind = "status"
    /\ batch_job.status = "completed"
    /\ batch_job.output_file_id

ObservedFailed ==
    /\ batch_job.kind = "status"
    /\ batch_job.status \in FailedStatuses

ObservedTerminal ==
    /\ batch_job.kind = "status"
    /\ batch_job.status \in TerminalStatuses

\* C1 as stated: once a retrieval has returned 'completed' with an output
\* file id and the monitor has finished, reconciliation has been invoked
\* exactly once.
C1_ExactlyOnce ==
    (CompletedWithOutput /\ mpc = "done") => reconciliations = 1

\* C1 as amended: after a retrieval has returned 'completed' with an output
\* file id, reconciliation is invoked at most once, exactly once when the
\* download of the output file succeeds and not at all when it raises, and
\* no further status retrieval happens.
C1_AtMostOnceNoRepoll ==
    /\ [](CompletedWithOutput => reconciliations <= 1)
    /\ []((CompletedWithOutput /\ mpc = "done") =>
             /\ download_result = "ok" => reconciliations = 1
             /\ download_result = "raised" => reconciliations = 0)
    /\ [][CompletedWithOutput => retrievals' = retrievals]_vars

C1_Witness ==
    /\ CompletedWithOutput
    /\ mpc = "done"
    /\ download_result = "ok"
    /\ reconciliations = 1
    /\ retrievals >= 2

\* C2: after a retrieval has returned 'failed', 'cancelled' or 'expired' the
\* monitor has stopped, and no result file was downloaded, no reconciliation
\* ran, no artifact was written and nothing went to the partner API.
C2_FailedStopsWithoutOutput ==
    ObservedFailed =>
        /\ mpc = "done"
        /\ downloads = 0
        /\ reconciliations = 0
        /\ artifacts = 0
        /\ logins = 0
        /\ forwards = 0

C2_Witness ==
    /\ ObservedFailed
    /\ remote.output_file_id
    /\ mpc = "done"
    /\ retrievals >= 2

\* C3: the monitor produces at most one terminal outcome (one download and
\* reconciliation attempt, or one terminal-failure report); from the first
\* observation of a terminal status on it neither retrieves nor sleeps, and
\* once the outcome is produced it does nothing at all.
C3_OneTerminalOutcome ==
    /\ [](/\ downloads <= 1
          /\ reconciliations <= downloads
          /\ failure_reports <= 1
          /\ downloads + failure_reports <= 1)
    /\ [][ObservedTerminal =>
             /\ retrievals' = retrievals
             /\ sleeps' = sleeps
             /\ mpc' # "sleep"]_vars
    /\ [][mpc = "done" =>
             UNCHANGED <<mpc, batch_job, wait, elapsed, retrievals, sleeps,
                         downloads, download_result, reconciliations,
                         failure_reports, artifacts, logins, forwards>>]_vars

C3_Witness ==
    /\ ObservedTerminal
    /\ mpc = "done"
    /\ sleeps >= 1
    /\ downloads + failure_reports = 1

\* C4: the monitor is finished only when the last retrieval returned a
\* terminal status; a retrieval that returns a non-terminal status or raises
\* is followed by a wait, and a wait by another retrieval, however much time
\* has elapsed.
C4_FinishesOnlyOnTerminal ==
    /\ [](mpc = "done" => ObservedTerminal)
    /\ [][(retrievals' = retrievals + 1 /\ ~ObservedTerminal') =>
             (mpc' = "sleep" /\ wait' > 0)]_vars
    /\ [][(mpc = "sleep" /\ mpc' # "sleep") => mpc' = "retrieve"]_vars

C4_Witness ==
    /\ elapsed > timeout_seconds
    /\ mpc = "sleep"
    /\ ~ObservedTerminal
    /\ retrievals >= 3

(***************************************************************************)
(* Properties of the HTTP endpoints (SpecApi)                              *)
(***************************************************************************)
Configured == client /\ sync_client

\* C5 as stated: with both clients configured, when the candidate fetch
\* returns at least one candidate, the upload returns a file id and the job
\* creation returns a job id, the submission endpoint answers 202 with that
\* job id and a status, and exactly one monitor task is scheduled for it.
C5_Accepted ==
    (/\ endpoint = "submit"
     /\ Configured
     /\ env.db = "rows"
     /\ env.db_rows >= 1
     /\ env.upload_failures < UploadAttempts
     /\ env.create = "ok") =>
        /\ resp.code = 202
        /\ resp.body.batch_id = env.batch_id
        /\ resp.body.status # ""
        /\ Len(background_tasks) = 1
        /\ background_tasks[1].batch_id = env.batch_id

\* C6 as stated: when the candidate filter returns zero candidates the
\* submission endpoint answers 404 and nothing is uploaded, created or
\* scheduled.
C6_NotFound ==
    (/\ endpoint = "submit"
     /\ Configured
     /\ env.db = "rows"
     /\ env.db_rows = 0) =>
        /\ resp.code = 404
        /\ \A i \in 1..Len(calls) : calls[i] \notin {"upload", "create_job"}
        /\ background_tasks = <<>>

\* C7: with the async or the sync client missing the submission endpoint
\* answers 503 and has called no collaborator: no extraction, ingestion,
\* database query, upload or job creation, and no task is scheduled.
C7_UnconfiguredIs503 ==
    (endpoint = "submit" /\ ~Configured) =>
        /\ resp.code = 503
        /\ calls = <<>>
        /\ extract_ret = <<>>
        /\ background_tasks = <<>>

C7_Witness ==
    /\ endpoint = "submit"
    /\ ~client
    /\ resp.code = 503
    /\ env.db = "rows"
    /\ env.db_rows >= 1

\* C8: what the try body of the submission endpoint raises is answered as
\* 500 with the exception's message in the detail, unless it is an
\* HTTPException, which is answered with its own status and detail.
C8_UnexpectedIs500 ==
    endpoint = "submit" =>
        /\ raised.cls \notin {"none", "HTTPException"} =>
              /\ resp.code = 500
              /\ raised.msg # <<>>
              /\ Contains(resp.detail, raised.msg)
        /\ raised.cls = "HTTPException" =>
              /\ resp.code = raised.status_code
              /\ resp.detail = raised.detail

C8_Witness ==
    /\ endpoint = "submit"
    /\ raised.cls = "ValueError"
    /\ resp.code = 500
    /\ Len(resp.detail) > 1

\* C9: with the client configured the status endpoint answers the job's id
\* and status when the retrieval succeeds, 404 when the retrieval raises
\* NotFoundError, and otherwise 500 with a fixed detail that does not
\* contain the text of the error.
C9_StatusAnswers ==
    (endpoint = "status" /\ client) =>
        /\ env.retrieve \in RemoteStatuses =>
              /\ resp.code = 200
              /\ resp.body = [batch_id |-> env.batch_id,
                              status |-> env.retrieve]
        /\ env.retrieve = "NotFoundError" => resp.code = 404
        /\ env.retrieve \notin RemoteStatuses \cup {"NotFoundError"} =>
              /\ resp.code = 500
              /\ resp.detail = <<"Error retrieving batch job status.">>
              /\ ~Contains(resp.detail, <<env.msg>>)

C9_Witness ==
    /\ endpoint = "status"
    /\ client
    /\ env.retrieve = "APIError"
    /\ raised.msg = <<env.msg>>
    /\ resp.code = 500

\* C10 as stated: when the extraction fails internally it returns a criteria
\* value of the full shape: no keywords, no locations (the empty value of
\* the type a success returns) and the language-requirement flag true.
C10_EmptyCriteria ==
    (/\ endpoint = "submit"
     /\ Configured
     /\ env.llm = "error") =>
        /\ Len(extract_ret) = 3
        /\ extract_ret[1] = PyList(<<>>)
        /\ extract_ret[2] = PyStr("")
        /\ extract_ret[3] = TRUE

(***************************************************************************)
(* Batch request builder                                                   *)
(***************************************************************************)
Built == endpoint = "prepare_openai_batch_input"

\* The custom id expected for each candidate id of CandidateIds.
ExpectedCustomId ==
    (-3 :> "candidate_-3") @@ (0 :> "candidate_0") @@ (5 :> "candidate_5")
    @@ (42 :> "candidate_42") @@ (105 :> "candidate_105")

\* str(candidate_id) expected for each candidate id of a reconciled run.
ExpectedSourceId == (5 :> "5") @@ (42 :> "42") @@ (77 :> "77")

\* C11: the builder returns exactly one request per candidate, in input
\* order, each with custom id 'candidate_' followed by the candidate id (no
\* candidate skipped or deduplicated), and a second call with the same
\* inputs returns the same number of requests with the same custom ids.
C11_OneRequestPerCandidate ==
    Built =>
        /\ Len(batch_input) = Len(candidates)
        /\ \A i \in 1..Len(candidates) :
              batch_input[i].custom_id = ExpectedCustomId[candidates[i].id]
        /\ Len(batch_input_again) = Len(batch_input)
        /\ \A i \in 1..Len(batch_input) :
              batch_input_again[i].custom_id = batch_input[i].custom_id

\* A list of three candidates holding one candidate twice was built, the
\* two calls reading different models from the environment.
C11_Witness ==
    /\ Built
    /\ Len(candidates) >= 3
    /\ \E i, j \in 1..Len(candidates) :
          i < j /\ candidates[i].id = candidates[j].id
    /\ batch_input # batch_input_again

\* C12: parsing the custom id of every request of a built batch the way the
\* reconciler does yields the id of the candidate the request was built
\* for, and candidates with distinct ids get distinct custom ids.
C12_CustomIdRoundTrip ==
    Built =>
        /\ \A i \in 1..Len(batch_input) :
              candidate_id_from_custom_id(batch_input[i].custom_id)
                  = [ok |-> TRUE, value |-> candidates[i].id]
        /\ \A i, j \in 1..Len(batch_input) :
              candidates[i].id # candidates[j].id
                  => batch_input[i].custom_id # batch_input[j].custom_id

\* A batch holding a negative, a one-digit and a three-digit id was built.
C12_Witness ==
    /\ Built
    /\ {-3, 5, 105} \subseteq {candidates[i].id : i \in 1..Len(candidates)}
    /\ Len(batch_input) = Len(candidates)

(***************************************************************************)
(* Result reconciler                                                       *)
(***************************************************************************)
Reconciled == endpoint = "process_openai_results"

\* A line carrying everything the reconciler reads, except possibly the
\* score of the embedded evaluation.
OtherwiseValid(line) ==
    /\ line.json = "object"
    /\ line.cid_type = "str"
    /\ line.custom_id \in {CustomId(id) : id \in SubmittedIds \cup {UnknownId}}
    /\ ~line.error
    /\ line.response = "object" /\ line.body = "object"
    /\ line.choices = "list" /\ line.choice0 = "object"
    /\ line.message = "object" /\ line.content = "str"
    /\ line.embedded = "object"
    /\ line.reasoning_kind = "str"

WellFormed(line) ==
    OtherwiseValid(line) /\ line.score_kind \in {"number", "missing"}

\* The candidate id a well-formed line was written for.
LineId(line) == CHOOSE id \in SubmittedIds \cup {UnknownId} :
                    line.custom_id = CustomId(id)

LineScore(line) == IF line.score_kind = "missing" THEN 0 ELSE line.score

\* The evaluation of a line is in a list of scores.
HasEvaluation(scores, line) ==
    \E k \in 1..Len(scores) :
        /\ scores[k].candidate_id = LineId(line)
        /\ scores[k].score = LineScore(line)
        /\ scores[k].reasoning = line.reasoning

\* The evaluation of a line is an entry of a ranked output.
HasEntry(output, line) ==
    \E k \in 1..Len(output) :
        /\ output[k].sourceId = ExpectedSourceId[LineId(line)]
        /\ output[k].info.score = LineScore(line)
        /\ output[k].info.reasoning = line.reasoning

\* C13 as stated: whatever the other lines of the result text are, every
\* well-formed line has its evaluation among those handed to the save step.
C13_BadLineNeverAborts ==
    Reconciled =>
        \A i \in 1..Len(results_content) :
            WellFormed(results_content[i])
                => /\ recon.save.called
                   /\ HasEvaluation(recon.final_scores, results_content[i])

\* C14: a line the loop processed that is valid except that its embedded
\* evaluation has no score yields an evaluation with score 0; unless the
\* run was aborted the evaluation is handed to the save step, and it is an
\* entry of the ranked output once that is written.
C14_MissingScoreIsZero ==
    Reconciled =>
        \A i \in 1..recon.processed :
            LET line == recon.results_lines[i]
            IN (OtherwiseValid(line) /\ line.score_kind = "missing")
                   => /\ \E k \in 1..Len(recon.final_scores) :
                            /\ recon.final_scores[k].candidate_id
                                   = LineId(line)
                            /\ recon.final_scores[k].score = 0
                            /\ recon.final_scores[k].reasoning
                                   = line.reasoning
                      /\ ~recon.aborted => recon.save.called
                      /\ recon.save.written
                            => \E k \in 1..Len(recon.save.final_output) :
                                 LET e == recon.save.final_output[k]
                                 IN /\ e.sourceId
                                         = ExpectedSourceId[LineId(line)]
                                    /\ e.info.score = 0

\* A result text with a line without score was reconciled and written, the
\* evaluation of that line carrying score 0 in the ranked output.
C14_Witness ==
    /\ Reconciled
    /\ recon.save.written
    /\ \E i \in 1..recon.processed :
          /\ recon.results_lines[i] = NoScoreLine
          /\ HasEntry(recon.save.final_output, NoScoreLine)
    /\ \E k \in 1..Len(recon.save.final_output) :
          recon.save.final_output[k].info.score > 0

C16_PlaceholderFields ==
    (Reconciled /\ recon.save.written) =>
        \A i \in 1..recon.processed :
            LET line == recon.results_lines[i]
            IN (WellFormed(line) /\ LineId(line) \notin SubmittedIds)
                   => \E k \in 1..Len(recon.save.final_output) :
                        LET e == recon.save.final_output[k]
                        IN /\ e.sourceId = ExpectedSourceId[LineId(line)]
                           /\ e.name = "N/A"
                           /\ e.sourceUrl = ""
                           /\ e.info.score = LineScore(line)
                           /\ e.info.reasoning = line.reasoning

\* A ranked output was written that holds an entry with placeholder fields
\* for the unknown id next to an entry with the name of a submitted
\* candidate.
C16_Witness ==
    /\ Reconciled
    /\ recon.save.written
    /\ \E k \in 1..Len(recon.save.final_output) :
          /\ recon.save.final_output[k].sourceId = ExpectedSourceId[UnknownId]
          /\ recon.save.final_output[k].name = "N/A"
    /\ \E k \in 1..Len(recon.save.final_output) :
          /\ recon.save.final_output[k].sourceId = ExpectedSourceId[42]
          /\ recon.save.final_output[k].name # "N/A"

(***************************************************************************)
(* Ranking, persistence and forwarding                                     *)
(***************************************************************************)
\* The save step wrote the artifact (from either entry point).
Persisted == recon.ran /\ recon.save.written

\* Output entry e is the formatted evaluation s.
IsEntryOf(e, s) ==
    /\ int(e.sourceId) = [ok |-> TRUE, value |-> s.candidate_id]
    /\ e.info.score = s.score
    /\ e.info.reasoning = s.reasoning

\* Number of entries of the output equal to entry e, and number of kept
\* evaluations which e is the formatted form of.
CopiesInOutput(output, e) ==
    Cardinality({k \in 1..Len(output) : output[k] = e})

CopiesInScores(scores, e) ==
    Cardinality({j \in 1..Len(scores) : IsEntryOf(e, scores[j])})

Min(a, b) == IF a < b THEN a ELSE b

\* C17: the persisted list is sorted by score in non-increasing order, has
\* min(n, 50) entries for the n kept evaluations, is a sub-multiset of the
\* kept evaluations, no evaluation left out has a score strictly greater
\* than an included one, and the list sent to the partner API is the
\* persisted list.
C17_RankedTopFifty ==
    Persisted =>
        LET output == recon.save.final_output
            scores == recon.final_scores
        IN /\ \A i, j \in 1..Len(output) :
                 i < j => output[i].info.score >= output[j].info.score
           /\ Len(output) = Min(Len(scores), 50)
           /\ \A k \in 1..Len(output) :
                 /\ CopiesInScores(scores, output[k]) > 0
                 /\ CopiesInOutput(output, output[k])
                        <= CopiesInScores(scores, output[k])
           /\ \A j \in 1..Len(scores) :
                 (\A k \in 1..Len(output) : ~IsEntryOf(output[k], scores[j]))
                     => \A k \in 1..Len(output) :
                            scores[j].score <= output[k].info.score
           /\ recon.save.forwards > 0 => recon.save.sent = output

\* More than fifty evaluations with distinct scores, given in ascending
\* order, were saved and delivered to the partner API.
C17_Witness ==
    /\ Persisted
    /\ Len(recon.final_scores) > 50
    /\ \A i, j \in 1..Len(recon.final_scores) :
          i < j => recon.final_scores[i].score < recon.final_scores[j].score
    /\ Len(recon.save.final_output) = 50
    /\ recon.save.delivered

\* C20 as stated: once the artifact is written, a failing login or
\* bulk-create request does not change what the save step reports: the
\* location of the artifact is returned.
C20_ForwardingIndependent ==
    (Persisted /\ (env.login = "raise" \/ env.bulk = "raise"))
        => recon.save.filepath

(***************************************************************************)
(* Upload and job creation                                                 *)
(***************************************************************************)
UploadReturned ==
    endpoint = "create_and_upload_batch_file" /\ upc = "returned"

\* Number of calls of the given collaborator made by the last request.
CallCount(name) == Cardinality({i \in 1..Len(calls) : calls[i] = name})

\* C18: the upload makes at most 10 transmission attempts; when it returns
\* a file id, that is the id of the one file the remote service stored, in
\* the last transmission made; when every attempt has failed it returns
\* no file id (it returns, it does not raise); a submission whose upload
\* returned no file id is answered 500 and creates no batch job.
C18_BoundedUpload ==
    /\ transmissions <= 10
    /\ attempt <= 10
    /\ transmissions <= attempt + Len(remote_files)
    /\ Len(remote_files) <= 1
    /\ UploadReturned =>
          IF stage_ret # ""
          THEN /\ remote_files = <<stage_ret>>
               /\ attempt < 10
               /\ transmissions >= 1
          ELSE /\ remote_files = <<>>
               /\ (client /\ temp_file) => attempt = 10
    /\ (upc = "loop" /\ attempt = 10) => ENABLED UploadExhausted
    /\ (endpoint = "submit" /\ CallCount("upload") > 0
           /\ create_and_upload_batch_file(env) = "")
          => /\ resp.code = 500
             /\ CallCount("create_job") = 0

\* The upload returned no file id after ten failed transmissions.
C18_Witness ==
    /\ UploadReturned
    /\ stage_ret = ""
    /\ attempt = 10
    /\ transmissions = 10

\* C19: job creation is attempted at most once per call and per submission
\* request; a failed creation returns no job id, a submission whose
\* creation failed is answered 500 and schedules no monitor task, and a
\* scheduled monitor task carries the job id the remote service returned.
C19_CreationOnce ==
    /\ creations <= 1
    /\ CallCount("create_job") <= 1
    /\ endpoint = "create_batch_job" =>
          /\ creations = IF client THEN 1 ELSE 0
          /\ stage_ret = IF client /\ env.create = "ok" THEN env.batch_id
                         ELSE ""
    /\ (endpoint = "submit" /\ CallCount("create_job") > 0
           /\ create_batch_job(env) = "")
          => /\ resp.code = 500
             /\ background_tasks = <<>>
    /\ \A i \in 1..Len(background_tasks) :
          /\ CallCount("create_job") = 1
          /\ env.create = "ok"
          /\ background_tasks[i].batch_id = env.batch_id

\* A job creation failed: one creation call was made and no id returned.
C19_Witness ==
    /\ endpoint = "create_batch_job"
    /\ client
    /\ env.create = "raise"
    /\ creations = 1
    /\ stage_ret = ""

(***************************************************************************)
(* Data store, handler order and criteria extraction                       *)
(***************************************************************************)
\* C21 as stated: when the data-store connection cannot be opened the
\* candidate fetch makes one connection attempt and raises 503, and a
\* submission request whose fetch meets it is answered 503.
C21_ConnectionFailureIs503 ==
    /\ (endpoint = "fetch_candidates_from_db" /\ env.db = "unavailable")
          => /\ CallCount("get_db_connection") = 1
             /\ raised.cls = "HTTPException"
             /\ raised.status_code = 503
    /\ (endpoint = "submit" /\ Configured /\ env.db = "unavailable")
          => resp.code = 503

\* C22 as stated: a configured submission whose collaborators all succeed
\* is answered 202 after extraction, filtering, upload and job creation
\* were performed in that order; the one monitor task was added after the
\* creation and nothing was polled, downloaded or reconciled for it.
C22_OrderedAndDetached ==
    (/\ endpoint = "submit"
     /\ Configured
     /\ env.db = "rows"
     /\ env.db_rows >= 1
     /\ env.upload_failures < UploadAttempts
     /\ env.create = "ok") =>
        /\ resp.code = 202
        /\ \E i, j, k, l \in 1..Len(calls) :
              /\ i < j /\ j < k /\ k < l
              /\ calls[i] = "extract"
              /\ calls[j] = "db_query"
              /\ calls[k] = "upload"
              /\ calls[l] = "create_job"
        /\ Len(background_tasks) = 1
        /\ retrievals = 0
        /\ downloads = 0
        /\ reconciliations = 0

Extracted == endpoint = "extract_keywords_from_vacancy"

\* The location code of the countries the service answers with.
ExpectedLocationCode ==
    ("FRANCE" :> "105015875") @@ ("GERMANY" :> "101282230")
    @@ ("POLAND" :> "105072130")

\* C23 as stated: every location the service returned as a member of the
\* country enumeration is in the returned locations with its own
\* non-empty code, and the returned locations hold nothing else.
C23_LocationsAreCodes ==
    (Extracted /\ sync_client /\ env.llm = "ok") =>
        /\ \A i \in 1..Len(env.llm_locations) :
              env.llm_locations[i] \in DOMAIN ExpectedLocationCode
                  => Contains(extract_ret[2].text,
                              ExpectedLocationCode[env.llm_locations[i]])
        /\ env.llm_locations = <<>> => extract_ret[2].text = ""

\* C24 as stated: the extraction returns at most 5 keywords.
C24_AtMostFiveKeywords ==
    Extracted => Len(extract_ret[1].items) <= 5

(***************************************************************************)
(* Waits and sleeps of the monitor (SpecMonitor)                           *)
(***************************************************************************)
\* C26: the wait after a generic API error is strictly shorter
\* than the wait after a rate-limit error, and the wait after an unexpected
\* error is longer than every other wait the loop applies.
C26_GradedWaits ==
    mpc = "sleep" =>
        /\ batch_job.kind = "APIError" => wait < ErrorWait("RateLimitError")
        /\ batch_job.kind # "Exception" => wait < ErrorWait("Exception")

\* C28: between any two consecutive status retrievals of the monitor there
\* is exactly one sleep and it suspends the coroutine, on every path: a
\* retrieval is made only when every earlier retrieval has been followed
\* by its suspending sleep, and a sleep only follows a retrieval.
C28_OneSuspendingSleep ==
    /\ [](/\ suspensions = sleeps
          /\ mpc = "retrieve" => sleeps = retrievals
          /\ mpc = "sleep" => retrievals = sleeps + 1
          /\ sleeps <= retrievals)
    /\ [][/\ retrievals' # retrievals =>
                /\ retrievals' = retrievals + 1
                /\ suspensions = retrievals
                /\ sleeps' = sleeps
          /\ sleeps' # sleeps =>
                /\ sleeps' = sleeps + 1
                /\ retrievals' = retrievals
                /\ retrievals = sleeps + 1]_vars

\* Three retrievals were each followed by one suspending sleep, one after a
\* non-terminal status (300), one after a rate-limit or API error (60) and
\* one after an unexpected error (120).
C28_Witness ==
    /\ mpc = "retrieve"
    /\ retrievals = 3
    /\ suspensions = 3
    /\ elapsed = 480

(***************************************************************************)
(* Forwarding of the persisted artifact (SpecReconcile)                    *)
(***************************************************************************)
\* C29: the partner API is contacted only after the artifact has been
\* written, with at most one login and at most one bulk-create call per
\* save, and the array sent in the bulk-create call is the persisted array:
\* the same entries in the same order, at most 50 of them.
C29_ForwardAfterWrite ==
    LET save == recon.save
    IN /\ save.logins <= 1
       /\ save.forwards <= 1
       /\ save.forwards <= save.logins
       /\ save.logins > 0 => save.called /\ save.written
       /\ save.forwards > 0 =>
             /\ Len(save.sent) = Len(save.final_output)
             /\ Len(save.sent) <= 50
             /\ \A k \in 1..Len(save.sent) :
                   save.sent[k] = save.final_output[k]
       /\ save.forwards = 0 => save.sent = <<>>

\* More entries than the cap were kept; the artifact was written and its
\* 50 entries were forwarded in one bulk-create call.
C29_Witness ==
    /\ recon.save.written
    /\ recon.save.forwards = 1
    /\ Len(recon.final_scores) > 50
    /\ Len(recon.save.sent) = 50
    /\ recon.save.sent[1].info.score > recon.save.sent[50].info.score

(***************************************************************************)
(* Acceptance policy (SpecPolicy)                                          *)
(***************************************************************************)
\* The policy and the pass threshold the environment file asks for.
ConfiguredPolicy ==
    IF <<"acceptance_policy", "threshold">> \in dotenv
    THEN "threshold" ELSE "keep_all"

ConfiguredThreshold ==
    int((CHOOSE kv \in dotenv : kv[1] = "pass_threshold")[2]).value

\* C27: the acceptance policy is selected by configuration: under the
\* threshold policy no entry of the ranked output has a score below the
\* pass threshold, and under the keep-all policy every successfully parsed
\* evaluation is kept for the ranked output.
C27_PolicyByConfiguration ==
    (Reconciled /\ ~recon.aborted) =>
        /\ ConfiguredPolicy = "threshold" =>
              \A k \in 1..Len(recon.save.final_output) :
                  recon.save.final_output[k].info.score
                      >= ConfiguredThreshold
        /\ ConfiguredPolicy = "keep_all" =>
              \A i \in 1..Len(recon.results_lines) :
                  WellFormed(recon.results_lines[i]) =>
                      HasEvaluation(recon.final_scores,
                                    recon.results_lines[i])

(***************************************************************************)
(* Files of concurrent runs (SpecTwoRuns)                                  *)
(***************************************************************************)
\* C25: two runs in flight share no mutable state: while a run needs its
\* payload file the file holds that run's payload, what the remote service
\* receives from a run is that run's payload, and the result artifact a
\* run has written keeps holding that run's result, also when both runs
\* act within the same clock second.
C25_RunsIndependent ==
    \A r \in Runs :
        /\ run[r].pc \in {"written", "sending"} =>
              files[run[r].timestamp] = r
        /\ run[r].uploaded \in {0, r}
        /\ run[r].pc = "saved" => output_files[run[r].out_timestamp] = r

(***************************************************************************)
(* The triggering script (SpecTrigger)                                     *)
(***************************************************************************)
\* C30: a vacancy the matching API has accepted (202) is no longer marked
\* as needing processing, and no vacancy is accepted twice.
C30_AcceptedOnce ==
    \A v \in VacancyRows :
        /\ accepted[v] > 0 => ~vacancies_vec[v]
        /\ accepted[v] <= 1

(***************************************************************************)
(* Termination of the monitor task (SpecMonitorFair)                       *)
(***************************************************************************)
\* C31: under fair scheduling, once a retrieval has returned a terminal
\* status the monitor eventually finishes; once the remote job is terminal
\* the monitor keeps polling until it finishes (or has made every retrieval
\* of the checked run, all later ones having failed); and the monitor is
\* never finished while the remote status is not terminal.
C31_FinishesWhenTerminal ==
    /\ ObservedTerminal ~> mpc = "done"
    /\ (remote.status \in TerminalStatuses)
           ~> (mpc = "done" \/ (mpc = "retrieve" /\ retrievals = MaxPolls))
    /\ [](remote.status \in NonTerminalStatuses => mpc # "done")

\* The job became terminal while the monitor was polling; after a regular
\* wait and a failed retrieval the monitor saw the terminal status and
\* finished.
C31_Witness ==
    /\ mpc = "done"
    /\ remote.status \in TerminalStatuses
    /\ ObservedTerminal
    /\ retrievals = 3
    /\ elapsed = timeout_seconds + RateLimitWait

(***************************************************************************)
(* Failures after 'completed' (SpecMonitor)                                *)
(***************************************************************************)
\* The download or the reconciliation of the completed job has raised.
CompletionFailed ==
    /\ CompletedWithOutput
    /\ download_result \in {"raised", "processing_raised"}

\* C32: when the download of the output file or the reconciliation raises
\* after 'completed' was observed, the monitor has stopped with this one
\* download attempt and at most this one reconciliation, and from then on
\* it neither sleeps, nor polls, nor downloads, nor reconciles again.
C32_FailureContained ==
    /\ [](CompletionFailed =>
             /\ mpc = "done"
             /\ downloads = 1
             /\ download_result = "raised" => reconciliations = 0
             /\ download_result = "processing_raised" => reconciliations = 1)
    /\ [][CompletionFailed =>
             UNCHANGED <<mpc, retrievals, sleeps, downloads,
                         reconciliations, artifacts, logins, forwards>>]_vars

\* The reconciliation of a job seen completed at the third retrieval has
\* raised and the monitor is finished.
C32_Witness ==
    /\ CompletedWithOutput
    /\ download_result = "processing_raised"
    /\ reconciliations = 1
    /\ mpc = "done"
    /\ retrievals = 3

\* The last retrieval returned 'completed' without an output file id.
CompletedWithoutOutput ==
    /\ batch_job.kind = "status"
    /\ batch_job.status = "completed"
    /\ ~batch_job.output_file_id

\* C33: after a retrieval has returned 'completed' with no output file id
\* the monitor has stopped; nothing was downloaded, no reconciliation ran,
\* no artifact was written and nothing went to the partner API, and
\* nothing of this happens later.
C33_NoOutputNoWork ==
    /\ [](CompletedWithoutOutput =>
             /\ mpc = "done"
             /\ download_result = "none"
             /\ downloads + reconciliations + artifacts = 0
             /\ logins + forwards = 0)
    /\ [][CompletedWithoutOutput => UNCHANGED monitorVars]_vars

\* After two waits the job was seen completed without an output file.
C33_Witness ==
    /\ CompletedWithoutOutput
    /\ mpc = "done"
    /\ sleeps = 2
    /\ retrievals = 3

(***************************************************************************)
(* Reconciliation without evaluations (SpecReconcile)                      *)
(***************************************************************************)
\* C34: when the reconciliation has no parsed evaluation, or the save step
\* is given an empty list, no artifact is written and neither the login
\* nor the bulk-create request is made.
C34_NothingParsedNothingSaved ==
    (/\ endpoint \in {"process_openai_results", "save_results_to_file"}
     /\ Len(recon.final_scores) = 0)
        => /\ ~recon.save.written
           /\ ~recon.save.filepath
           /\ recon.save.final_output = <<>>
           /\ recon.save.logins = 0
           /\ recon.save.forwards = 0
           /\ ~recon.save.delivered

\* Three lines, none of them yielding an evaluation, were reconciled to
\* the end while the file system and the partner API were available.
C34_Witness ==
    /\ Reconciled
    /\ Len(recon.results_lines) = 3
    /\ recon.processed = 3
    /\ ~recon.aborted
    /\ Len(recon.final_scores) = 0
    /\ env.write = "ok" /\ env.login = "ok" /\ env.bulk = "ok"

(***************************************************************************)
(* The temporary file of the upload (SpecStages)                           *)
(***************************************************************************)
\* C35: whenever create_and_upload_batch_file has returned, with a file id
\* or without one, the temporary batch input file no longer exists.
C35_TempFileRemoved ==
    UploadReturned => ~temp_file

(***************************************************************************)
(* The wait between upload attempts (SpecTwoRuns)                          *)
(***************************************************************************)
\* The next step of run q, whichever it is.
RunStep(q) ==
    \/ RunWritePayload(q)
    \/ RunSendPayload(q)
    \/ RunPayloadMissing(q)
    \/ RunUploaded(q)
    \/ RunUploadFails(q)
    \/ RunSaveResults(q)

\* C36: while one run is waiting between two failed upload attempts, every
\* other run of the process that has a step to take can take it.
C36_RetryWaitYields ==
    \A r \in Runs, q \in Runs :
        (/\ q # r
         /\ run[r].pc = "backoff"
         /\ run[q].pc \in {"start", "sending", "uploaded"})
            => ENABLED RunStep(q)

(***************************************************************************)
(* Contained failures of the submission endpoint (SpecApi)                 *)
(***************************************************************************)
\* C37: a configured submission whose candidates were found, whose upload
\* and job creation succeeded and whose initial status retrieval raises is
\* answered 202 with the job id and status 'pending', the one monitor task
\* for that job being scheduled.
C37_PendingOnStatusFailure ==
    (/\ endpoint = "submit"
     /\ Configured
     /\ env.db = "rows"
     /\ env.db_rows >= 1
     /\ env.upload_failures < UploadAttempts
     /\ env.create = "ok"
     /\ env.retrieve \notin RemoteStatuses) =>
        /\ resp.code = 202
        /\ resp.body = [batch_id |-> env.batch_id, status |-> "pending"]
        /\ Len(background_tasks) = 1
        /\ background_tasks[1].batch_id = env.batch_id

\* C38: a configured submission during which the ingestion call raises
\* gets past the ingestion to the candidate fetch, and is answered as the
\* same submission with a succeeding ingestion call would be.
C38_IngestionNonFatal ==
    (/\ endpoint = "submit"
     /\ Configured
     /\ env.ingest = "raise") =>
        /\ Len(extract_ret) = UnpackTargets
        /\ raised.cls # "ValueError"
        /\ resp = match_candidates_batch_endpoint(
                      [env EXCEPT !.ingest = "ok"]).resp

====
